---- MODULE Spec2Model ----
(***************************************************************************)
(* Acquisition-and-retention engine of the pyrometer monitor               *)
(* (backend/app): the poll interval computation, the retention engine,     *)
(* the ping-pong buffer with its flush threads, and the scheduler with     *)
(* the Modbus transport and the on-demand parameter path.                  *)
(*                                                                         *)
(* One module, four specifications over disjoint groups of variables:      *)
(*   SpecInterval   PollingService._calculate_dynamic_interval             *)
(*   SpecRetention  DataRetentionService.daily_cleanup /                   *)
(*                  cleanup_on_buffer_flush on the device_readings table   *)
(*   SpecBuffer     PingPongBuffer with background flush threads           *)
(*   SpecBus        PollingService, ModbusService, rs485_client            *)
(* Each specification holds the other groups at their idle value.          *)
(***************************************************************************)
EXTENDS Integers, Sequences, FiniteSets, TLC

VARIABLES
    \* ---- SpecInterval
    settings,        \* the Settings object read by PollingService (config.py)
    calc,            \* last call of _calculate_dynamic_interval: [n, interval]
    \* ---- SpecRetention
    rows,            \* table device_readings: set of [id, ts_utc, device_id]
    clock,           \* the wall clock read by datetime.now()
    next_id,         \* autoincrement primary key of device_readings
    history,         \* retention calls since the last insert or clock change
    \* ---- SpecBuffer
    buffer_a,        \* PingPongBuffer.buffer_a
    buffer_b,        \* PingPongBuffer.buffer_b
    active_buffer,   \* PingPongBuffer.active_buffer: "a" or "b"
    lock,            \* PingPongBuffer.lock: "free" or its holder
    total_saved,     \* PingPongBuffer.total_saved
    flushers,        \* the calls of _save_buffer_to_db, in the order they began
    flush_all_pc,    \* where the caller of flush_all() is
    device_settings, \* ids in table device_settings
    adds,            \* number of add_reading calls made
    persisted,       \* readings committed to device_readings, in commit order
    skipped,         \* readings skipped for a device id not in device_settings
    failed,          \* readings dropped on an individual insert failure
    faults,          \* number of storage errors met by the flushes
    \* ---- SpecBus
    is_running,      \* PollingService.is_running
    polling_task,    \* PollingService.polling_task: index into tasks, 0 for None
    tasks,           \* the _polling_loop tasks created so far
    workers,         \* the threads running ModbusService.read_temperature
    svc_lock,        \* ModbusService._lock: index of the holding worker, 0 if free
    client,          \* ModbusService.client: "none" or "open"
    wire,            \* actors with a request in flight: a worker index, 0 for
                     \* the parameter path
    stopping,        \* the calls of stop() under way: set of [task, pc]
    param,           \* the parameter operation under way in an endpoint
    buffered,        \* readings added to the buffer and not flushed yet
    restarting,      \* the call of restart() under way
    \* ---- SpecTimeCheck
    wall_now,        \* the wall clock: [date, hour] as datetime.now() gives it
    last_cleanup_date, \* DataRetentionService.last_cleanup_date, 0 for None
    woke,            \* what the last wake-up of _time_check_loop saw and did,
                     \* and whether a cleanup had failed before it
    fired,           \* per date, the daily_cleanup() calls the loop made for it
    \* ---- SpecSocket
    active_connections, \* ConnectionManager.active_connections, a list
    accepted,        \* number of WebSocket connections accepted so far
    publish,         \* the call of broadcast() under way
    added,           \* readings the scheduler has passed to add_reading
    read_call,       \* device configuration and bus responses of one read
    read_result,     \* the dict read_temperature returned
    reading_data,    \* the dict _polling_loop passed to add_reading
    db_reading,      \* the DeviceReading row built from it
    sched,           \* the polling task inside _polling_loop, with its faults
    modbus,          \* ModbusService: client, current_port, current_baudrate
    connecting       \* the call of connect(port, baudrate) under way

intervalVars  == <<settings, calc>>
retentionVars == <<rows, clock, next_id, history>>
bufferVars    == <<buffer_a, buffer_b, active_buffer, lock, total_saved, flushers,
                   flush_all_pc, device_settings, adds, persisted, skipped,
                   failed, faults>>
busVars       == <<is_running, polling_task, tasks, workers, svc_lock, client, wire,
                   stopping, param, buffered, restarting>>
timeVars      == <<wall_now, last_cleanup_date, woke, fired>>
socketVars    == <<active_connections, accepted, publish, added>>
readingVars   == <<read_call, read_result, reading_data, db_reading>>
loopVars      == <<sched>>
connVars      == <<modbus, connecting>>
vars == <<intervalVars, retentionVars, bufferVars, busVars, timeVars, socketVars,
         readingVars, loopVars, connVars>>

\* ids of the configured devices (table device_settings).
DeviceIds == {1, 2}

\* settings.cleanup_hour; the calendar dates and hours of day the wall clock
\* is seen at, and the cap of the per-date count of cleanups.
cleanup_hour == 2
MaxDate  == 3
MaxFired == 2
Dates == 1..MaxDate
Hours == { cleanup_hour - 1, cleanup_hour, cleanup_hour + 1 }
\* No broadcast() is under way.
NoPublish == [ pc |-> "idle", message |-> 0, next |-> 0, current |-> 0,
               at_start |-> {}, attempted |-> <<>>, dead_connections |-> <<>>,
               error |-> "none" ]

\* Bound of SpecSocket: the readings published in a behaviour.
MaxPublish == 2

\* The values a temperature field holds: None, a Python float or int given
\* exactly as (-1)^neg * M / 2^k, a value rounded to hundredths given as
\* (-1)^neg * M / 100, a NaN or an infinity.
None      == [ kind |-> "None", neg |-> FALSE, M |-> 0, k |-> 0 ]
NaN       == [ kind |-> "nan", neg |-> FALSE, M |-> 0, k |-> 0 ]
Inf(neg)  == [ kind |-> "inf", neg |-> neg, M |-> 0, k |-> 0 ]
Binary(neg, M, k) == [ kind |-> "binary", neg |-> neg, M |-> M, k |-> k ]
Hundredths(neg, h) == [ kind |-> "hundredths", neg |-> neg, M |-> h, k |-> 0 ]

\* No read_temperature call was made, nothing returned, nothing passed to
\* add_reading, no row built.
NoResponse    == [ kind |-> "none", registers |-> <<>> ]
NoCall        == [ device_id |-> 0, function_code |-> 0, register_count |-> 0,
                   response |-> NoResponse, ambient_response |-> NoResponse ]
NoReadResult  == [ returned |-> FALSE, device_id |-> 0, temperature |-> None,
                   ambient_temp |-> None, status |-> "", raw_hex |-> <<>>,
                   error_message |-> "" ]
NoReadingData == [ added |-> FALSE, device_id |-> 0, temperature |-> None,
                   ambient_temp |-> None, status |-> "", raw_hex |-> <<>> ]
NoRow         == [ saved |-> FALSE, device_id |-> 0, value |-> None,
                   ambient_temp |-> None, status |-> "", raw_hex |-> <<>> ]

\* The polling task as start() has just created it: is_running is true, the
\* task is at the test of `while self.is_running`, nothing has gone wrong.
FirstSched == [ pc |-> "top", is_running |-> TRUE, cancelled |-> FALSE,
                device |-> 0, n |-> 0, cycle_count |-> 0, faults |-> 0,
                fault |-> "none", reason |-> "none" ]

\* No client object (self.client is None); ModbusService as __init__ leaves
\* it (None is 0 for a port, a baud rate and a client id); no call of connect
\* under way.
NoClient   == [ id |-> 0, port |-> 0, baudrate |-> 0, connected |-> FALSE ]
NewService == [ client |-> NoClient, current_port |-> 0, current_baudrate |-> 0,
                created |-> 0, closed |-> {} ]
NoConnect  == [ pc |-> "idle", port |-> 0, baudrate |-> 0, before |-> NoClient,
                result |-> FALSE, raced |-> FALSE ]

\* Bound of SpecSocket: the WebSocket connections accepted in a behaviour.
MaxClients == 3

FirstNow  == [ date |-> 1, hour |-> cleanup_hour - 1 ]
NotWoken  == [ date |-> 0, hour |-> 0, ran |-> FALSE, outcome |-> "none",
               looping |-> TRUE, failed_before |-> FALSE ]
NoneFired == [ d \in Dates |-> 0 ]

\* No parameter operation is under way / none has ended yet.
NoParam == [ pc |-> "idle", kind |-> "none", value |-> 0,
             polling_was_running |-> FALSE, error |-> "none", on_wire |-> FALSE ]

\* No restart() is under way.
NoRestart == [ pc |-> "idle", task |-> 0 ]

Max(a, b) == IF a >= b THEN a ELSE b
Min(a, b) == IF a <= b THEN a ELSE b

(***************************************************************************)
(* Settings (config.py).  Times are in milliseconds, the safety factor in  *)
(* tenths, so that 0.5 s * 2.5 is the integer 500 * 25 \div 10.            *)
(***************************************************************************)
modbus_poll_interval      == 20000
modbus_per_device_time    == 500
modbus_min_poll_interval  == 1000
modbus_max_poll_interval  == 20000
modbus_safety_factor      == 25

\* Largest device count tried by SpecInterval.
MaxDevices == 18

\* The defaults of config.py and the overrides a .env file can give.
SettingsSpace ==
    [ modbus_enable_dynamic_polling : BOOLEAN,
      modbus_poll_interval          : {5000, modbus_poll_interval, 30000},
      modbus_per_device_time        : {modbus_per_device_time},
      modbus_safety_factor          : {modbus_safety_factor},
      modbus_min_poll_interval      : {modbus_min_poll_interval, 25000},
      modbus_max_poll_interval      : {modbus_max_poll_interval} ]

DefaultSettings ==
    [ modbus_enable_dynamic_polling |-> TRUE,
      modbus_poll_interval          |-> modbus_poll_interval,
      modbus_per_device_time        |-> modbus_per_device_time,
      modbus_safety_factor          |-> modbus_safety_factor,
      modbus_min_poll_interval      |-> modbus_min_poll_interval,
      modbus_max_poll_interval      |-> modbus_max_poll_interval ]

\* Mutant of ClampInterval: the upper bound is not applied.
ClampIntervalNoUpper(s, calculated_interval) ==
    Max(s.modbus_min_poll_interval, calculated_interval)

\* max(min_interval, min(calculated_interval, max_interval))
ClampInterval(s, calculated_interval) ==
    Max(s.modbus_min_poll_interval,
        Min(calculated_interval, s.modbus_max_poll_interval))

\* PollingService._calculate_dynamic_interval(num_devices) under settings s.
calculate_dynamic_interval(s, num_devices) ==
    IF ~s.modbus_enable_dynamic_polling
    THEN s.modbus_poll_interval
    ELSE ClampInterval(s,
            (num_devices * s.modbus_per_device_time * s.modbus_safety_factor) \div 10)

NoCalc == [ called |-> FALSE, n |-> 0, interval |-> 0 ]

InitInterval ==
    /\ settings \in SettingsSpace /\ calc = NoCalc
    /\ rows = {} /\ clock = 0 /\ next_id = 1 /\ history = <<>>
    /\ buffer_a = <<>> /\ buffer_b = <<>> /\ active_buffer = "a" /\ lock = "free"
    /\ total_saved = 0 /\ flushers = <<>> /\ flush_all_pc = "idle"
    /\ device_settings = DeviceIds /\ adds = 0 /\ persisted = <<>>
    /\ skipped = {} /\ failed = {} /\ faults = 0
    /\ is_running = FALSE /\ polling_task = 0 /\ tasks = <<>> /\ workers = <<>>
    /\ svc_lock = 0 /\ client = "none" /\ wire = {} /\ stopping = {}
    /\ restarting = NoRestart
    /\ param = NoParam /\ buffered = 0
    /\ wall_now = FirstNow /\ last_cleanup_date = 0 /\ woke = NotWoken
    /\ fired = NoneFired
    /\ active_connections = <<>> /\ accepted = 0 /\ publish = NoPublish
    /\ added = 0
    /\ read_call = NoCall /\ read_result = NoReadResult
    /\ reading_data = NoReadingData /\ db_reading = NoRow
    /\ sched = FirstSched
    /\ modbus = NewService /\ connecting = NoConnect

\* One call of _calculate_dynamic_interval, as made at the end of a cycle.
CalculateDynamicInterval ==
    \E n \in 0..MaxDevices :
        calc' = [ called |-> TRUE, n |-> n, interval |-> calculate_dynamic_interval(settings, n) ]
    /\ UNCHANGED <<settings, retentionVars, bufferVars, busVars, timeVars, socketVars, readingVars, loopVars, connVars>>

(***************************************************************************)
(* Retention engine (data_retention_service.py) on table device_readings.  *)
(* The clock counts abstract ticks; retention_days is the retention window *)
(* in ticks and max_rows the row ceiling, both scaled down from config.py  *)
(* (90 days, 5,000,000 rows).                                              *)
(***************************************************************************)
retention_days == 1
max_rows       == 1

\* Bounds of SpecRetention.
MaxClock  == 3
MaxId     == 3

\* How a run of a cleanup ends: normally, with an exception raised before
\* db.commit() (the except branch rolls the DELETE back), or with an exception
\* raised by a statement that follows db.commit().
Outcomes == {"ok", "failed_before_commit", "failed_after_commit"}

\* Mutant of OlderThan: the comparison includes the cutoff itself.
OlderThanOrAt(r, cutoff) == r.ts_utc <= cutoff

\* WHERE ts_utc < :cutoff
OlderThan(r, cutoff) == r.ts_utc < cutoff

\* cutoff_date = datetime.now(timezone.utc) - timedelta(days=self.retention_days)
CutoffDate(now) == now - retention_days

\* Mutant of OldRows: the DELETE removes one old row per run.
OldRowsOneOnly(table, cutoff) ==
    LET old == { r \in table : OlderThan(r, cutoff) }
    IN  IF old = {} THEN {} ELSE { CHOOSE r \in old : TRUE }

\* The rows DELETE FROM device_readings WHERE ts_utc < :cutoff removes.
OldRows(table, cutoff) == { r \in table : OlderThan(r, cutoff) }

\* Mutant of OldestFirst: the subquery orders by ts_utc descending.
NewestFirst(S, table) ==
    \A r \in S : \A q \in table \ S : r.ts_utc >= q.ts_utc

\* S is a prefix of table in ORDER BY ts_utc ASC (ties in any order).
OldestFirst(S, table) ==
    \A r \in S : \A q \in table \ S : r.ts_utc <= q.ts_utc

\* The sets of ids the subquery ORDER BY ts_utc ASC LIMIT excess can select.
OldestRows(table, excess) ==
    { S \in SUBSET table : Cardinality(S) = excess /\ OldestFirst(S, table) }

\* excess = total_rows - self.max_rows, taken when total_rows > self.max_rows
Excess(total_rows) == IF total_rows > max_rows THEN total_rows - max_rows ELSE 0

\* The record a cleanup run leaves in history.
CleanupRecord(op, outcome, before, after) ==
    [ op |-> op, outcome |-> outcome, now |-> clock,
      before |-> before, after |-> after ]

\* history keeps the last two runs.
Remember(rec) ==
    IF Len(history) < 2 THEN Append(history, rec) ELSE <<history[2], rec>>

InitRetention ==
    /\ settings = DefaultSettings /\ calc = NoCalc
    /\ rows = {} /\ clock = 0 /\ next_id = 1 /\ history = <<>>
    /\ buffer_a = <<>> /\ buffer_b = <<>> /\ active_buffer = "a" /\ lock = "free"
    /\ total_saved = 0 /\ flushers = <<>> /\ flush_all_pc = "idle"
    /\ device_settings = DeviceIds /\ adds = 0 /\ persisted = <<>>
    /\ skipped = {} /\ failed = {} /\ faults = 0
    /\ is_running = FALSE /\ polling_task = 0 /\ tasks = <<>> /\ workers = <<>>
    /\ svc_lock = 0 /\ client = "none" /\ wire = {} /\ stopping = {}
    /\ restarting = NoRestart
    /\ param = NoParam /\ buffered = 0
    /\ wall_now = FirstNow /\ last_cleanup_date = 0 /\ woke = NotWoken
    /\ fired = NoneFired
    /\ active_connections = <<>> /\ accepted = 0 /\ publish = NoPublish
    /\ added = 0
    /\ read_call = NoCall /\ read_result = NoReadResult
    /\ reading_data = NoReadingData /\ db_reading = NoRow
    /\ sched = FirstSched
    /\ modbus = NewService /\ connecting = NoConnect

\* A flush persists one reading; its timestamp was taken from the clock when
\* the device was read, at most one tick before the flush.
InsertReading ==
    /\ next_id <= MaxId
    /\ \E ts \in {clock - 1, clock} \cap Nat, d \in DeviceIds :
          rows' = rows \cup { [ id |-> next_id, ts_utc |-> ts, device_id |-> d ] }
    /\ next_id' = next_id + 1
    /\ history' = <<>>
    /\ UNCHANGED <<clock, intervalVars, bufferVars, busVars, timeVars, socketVars, readingVars, loopVars, connVars>>

\* Time passes.
Tick ==
    /\ clock < MaxClock
    /\ clock' = clock + 1
    /\ history' = <<>>
    /\ UNCHANGED <<rows, next_id, intervalVars, bufferVars, busVars, timeVars, socketVars, readingVars, loopVars, connVars>>

\* DataRetentionService.daily_cleanup()
daily_cleanup ==
    \E outcome \in Outcomes :
        LET cutoff_date == CutoffDate(clock)
            old         == OldRows(rows, cutoff_date)
            after       == IF outcome = "failed_before_commit" THEN rows
                           ELSE rows \ old
        IN  \* `if old_count == 0: return` comes before the DELETE and the commit
            /\ outcome = "failed_after_commit" => old # {}
            /\ rows' = after
            /\ history' = Remember(CleanupRecord("daily_cleanup", outcome, rows, after))
            /\ UNCHANGED <<clock, next_id, intervalVars, bufferVars, busVars,
                           timeVars, socketVars, readingVars, loopVars, connVars>>

\* DataRetentionService.cleanup_on_buffer_flush()
cleanup_on_buffer_flush ==
    \E outcome \in Outcomes :
        LET total_rows == Cardinality(rows)
            excess     == Excess(total_rows)
        IN  /\ outcome = "failed_after_commit" => excess > 0
            /\ \E victims \in OldestRows(rows, excess) :
                 LET after == IF outcome = "failed_before_commit" THEN rows
                              ELSE rows \ victims
                 IN /\ rows' = after
                    /\ history' = Remember(CleanupRecord("cleanup_on_buffer_flush",
                                                          outcome, rows, after))
            /\ UNCHANGED <<clock, next_id, intervalVars, bufferVars, busVars,
                           timeVars, socketVars, readingVars, loopVars, connVars>>

NextRetention ==
    \/ InsertReading
    \/ Tick
    \/ daily_cleanup
    \/ cleanup_on_buffer_flush

SpecRetention == InitRetention /\ [][NextRetention]_vars

(***************************************************************************)
(* The time-check loop of the retention service                            *)
(* (data_retention_service.py, _time_check_loop).  The loop wakes up every *)
(* 60 seconds and reads the wall clock, which passes or is set by hand     *)
(* between two wake-ups.                                                   *)
(* The table holds rows written on earlier dates; a row's ts_utc and the    *)
(* cutoff are counted in dates.                                            *)
(***************************************************************************)
StoredRows == { [ id |-> 0 - d, ts_utc |-> d, device_id |-> 1 ] : d \in {0, 1} }

InitTimeCheck ==
    /\ settings = DefaultSettings /\ calc = NoCalc
    /\ rows = StoredRows
    /\ clock = 0 /\ next_id = 1 /\ history = <<>>
    /\ buffer_a = <<>> /\ buffer_b = <<>> /\ active_buffer = "a" /\ lock = "free"
    /\ total_saved = 0 /\ flushers = <<>> /\ flush_all_pc = "idle"
    /\ device_settings = DeviceIds /\ adds = 0 /\ persisted = <<>>
    /\ skipped = {} /\ failed = {} /\ faults = 0
    /\ is_running = FALSE /\ polling_task = 0 /\ tasks = <<>> /\ workers = <<>>
    /\ svc_lock = 0 /\ client = "none" /\ wire = {} /\ stopping = {}
    /\ restarting = NoRestart
    /\ param = NoParam /\ buffered = 0
    /\ wall_now = FirstNow /\ last_cleanup_date = 0 /\ woke = NotWoken
    /\ fired = NoneFired
    /\ active_connections = <<>> /\ accepted = 0 /\ publish = NoPublish
    /\ added = 0
    /\ read_call = NoCall /\ read_result = NoReadResult
    /\ reading_data = NoReadingData /\ db_reading = NoRow
    /\ sched = FirstSched
    /\ modbus = NewService /\ connecting = NoConnect

\* The wall clock between two wake-ups: time passes, or the system time is
\* set, forward or backward.
ClockChange ==
    /\ \E d \in Dates, h \in Hours :
         /\ [ date |-> d, hour |-> h ] # wall_now
         /\ wall_now' = [ date |-> d, hour |-> h ]
    /\ UNCHANGED <<last_cleanup_date, woke, fired, intervalVars, retentionVars,
                   bufferVars, busVars, socketVars, readingVars, loopVars, connVars>>

\* `current_hour == self.cleanup_hour and self.last_cleanup_date != current_date`
CleanupDue(current_hour, current_date, last) ==
    current_hour = cleanup_hour /\ last # current_date

\* How a call of daily_cleanup() from the loop ends: as in Outcomes, the
\* exception being caught inside daily_cleanup (lines 201-205), or "raised":
\* an exception leaves daily_cleanup (SessionLocal() at line 133 is outside
\* the try; db.rollback() at line 205 is inside the handler) with nothing
\* committed.
LoopOutcomes == Outcomes \cup {"raised"}

\* Mutant of RolledBack: the rollback leaves one of the deletions in place.
HalfRolledBack(table, old) ==
    IF old = {} THEN table ELSE table \ { CHOOSE r \in old : TRUE }

\* db.rollback(), line 205: the table after the DELETE was rolled back.
RolledBack(table, old) == table

\* Mutant of KeepsLooping: an error of the cleanup ends the loop.
EndsOnError(outcome) == outcome = "ok"

\* Whether `while self.is_running` goes on after the pass: an exception caught
\* inside daily_cleanup never reaches the loop, one that leaves it is caught
\* by `except Exception` (lines 116-118), which logs, sleeps and continues.
KeepsLooping(outcome) == TRUE

\* The run of daily_cleanup() the wake-up w made ended with an exception.
CleanupFailed(w) ==
    w.ran /\ w.outcome \in {"failed_before_commit", "failed_after_commit", "raised"}

\* One pass of `while self.is_running` in _time_check_loop, lines 88-118: the
\* clock is read; when the cleanup is due, daily_cleanup() runs and, when it
\* returns, the date is remembered; the loop sleeps 60 seconds.
time_check_wakeup ==
    LET current_hour == wall_now.hour
        current_date == wall_now.date
        due == CleanupDue(current_hour, current_date, last_cleanup_date)
    IN  /\ woke.looping
        /\ IF due
           THEN \E outcome \in LoopOutcomes :
                LET old   == OldRows(rows, CutoffDate(current_date))
                    after == CASE outcome = "ok" -> rows \ old
                               [] outcome = "failed_after_commit" -> rows \ old
                               [] outcome = "failed_before_commit" ->
                                     RolledBack(rows, old)
                               [] outcome = "raised" -> RolledBack(rows, old)
                IN /\ outcome = "failed_after_commit" => old # {}
                   /\ rows' = after
                   /\ fired' = [ fired EXCEPT
                                   ![current_date] = Min(@ + 1, MaxFired) ]
                   /\ last_cleanup_date' = IF outcome = "raised"
                                           THEN last_cleanup_date
                                           ELSE current_date
                   /\ woke' = [ date |-> current_date, hour |-> current_hour,
                                ran |-> TRUE, outcome |-> outcome,
                                looping |-> KeepsLooping(outcome),
                                failed_before |-> woke.failed_before
                                                    \/ CleanupFailed(woke) ]
           ELSE /\ woke' = [ date |-> current_date, hour |-> current_hour,
                             ran |-> FALSE, outcome |-> "none",
                             looping |-> TRUE,
                             failed_before |-> woke.failed_before
                                                 \/ CleanupFailed(woke) ]
                /\ UNCHANGED <<rows, fired, last_cleanup_date>>
        /\ UNCHANGED <<wall_now, clock, next_id, history, intervalVars, bufferVars,
                       busVars, socketVars, readingVars, loopVars, connVars>>

NextTimeCheck ==
    \/ ClockChange
    \/ time_check_wakeup

SpecTimeCheck == InitTimeCheck /\ [][NextTimeCheck]_vars

(***************************************************************************)
(* WebSocket fan-out (websocket_service.py, api/websocket.py).  Everything *)
(* runs on the event loop; a coroutine gives way to the others only at an  *)
(* await that suspends: accept(), receive_text() and send_json().  A       *)
(* connection is a number, given in the order of acceptance.               *)
(***************************************************************************)
InitSocket ==
    /\ settings = DefaultSettings /\ calc = NoCalc
    /\ rows = {} /\ clock = 0 /\ next_id = 1 /\ history = <<>>
    /\ buffer_a = <<>> /\ buffer_b = <<>> /\ active_buffer = "a" /\ lock = "free"
    /\ total_saved = 0 /\ flushers = <<>> /\ flush_all_pc = "idle"
    /\ device_settings = DeviceIds /\ adds = 0 /\ persisted = <<>>
    /\ skipped = {} /\ failed = {} /\ faults = 0
    /\ is_running = FALSE /\ polling_task = 0 /\ tasks = <<>> /\ workers = <<>>
    /\ svc_lock = 0 /\ client = "none" /\ wire = {} /\ stopping = {}
    /\ restarting = NoRestart
    /\ param = NoParam /\ buffered = 0
    /\ wall_now = FirstNow /\ last_cleanup_date = 0 /\ woke = NotWoken
    /\ fired = NoneFired
    /\ active_connections = <<>> /\ accepted = 0 /\ publish = NoPublish
    /\ added = 0
    /\ read_call = NoCall /\ read_result = NoReadResult
    /\ reading_data = NoReadingData /\ db_reading = NoRow
    /\ sched = FirstSched
    /\ modbus = NewService /\ connecting = NoConnect

socketFrame == <<intervalVars, retentionVars, bufferVars, busVars, timeVars,
    readingVars, loopVars, connVars>>

Connections(list) == { list[k] : k \in DOMAIN list }

\* list.remove(x): the first occurrence goes, the rest moves up.
Remove(list, x) == SelectSeq(list, LAMBDA y : y # x)

\* ConnectionManager.connect from websocket_endpoint: accept(), then append.
connect ==
    /\ accepted < MaxClients
    /\ accepted' = accepted + 1
    /\ active_connections' = Append(active_connections, accepted + 1)
    /\ UNCHANGED <<publish, added, socketFrame>>

\* websocket_endpoint: receive_text() raises WebSocketDisconnect and
\* ConnectionManager.disconnect removes the connection from the list.
disconnect(websocket) ==
    /\ websocket \in Connections(active_connections)
    /\ active_connections' = Remove(active_connections, websocket)
    /\ UNCHANGED <<accepted, publish, added, socketFrame>>

RECURSIVE RemoveAll(_, _)
RemoveAll(list, dead) ==
    IF dead = <<>> THEN list
    ELSE RemoveAll(Remove(list, Head(dead)), Tail(dead))

\* How an awaited send_json ends: it returns, it raises an exception of the
\* subscriber's side (WebSocketDisconnect, RuntimeError, ...), or the
\* scheduler task is cancelled while it waits.
SendOutcomes == { "sent", "Exception", "CancelledError" }

\* `except Exception` of broadcast (line 67) catches every exception but
\* those that are not of class Exception: CancelledError is a BaseException.
CatchesNone(outcome) == FALSE
Caught(outcome) == outcome = "Exception"

\* _polling_loop, lines 223-239, and broadcast(), lines 53-64: the scheduler
\* passes the reading to add_reading and then calls broadcast with it, which
\* returns at once without connections; else the for loop starts on the list
\* itself, takes its first item and awaits send_json on it. Other coroutines
\* run only while a send is awaited.
broadcast_begin ==
    /\ publish.pc = "idle"
    /\ added < MaxPublish
    /\ added' = added + 1
    /\ publish' =
         IF active_connections = <<>>
         THEN [ NoPublish EXCEPT !.pc = "returned", !.message = added + 1 ]
         ELSE [ NoPublish EXCEPT !.pc = "loop", !.message = added + 1,
                  !.next = 2,
                  !.at_start = Connections(active_connections),
                  !.current = active_connections[1],
                  !.attempted = <<active_connections[1]>> ]
    /\ UNCHANGED <<active_connections, accepted, socketFrame>>

\* The dead connections once the awaited send_json has returned or raised
\* (lines 64-72).
AfterSend(outcome) ==
    IF outcome = "sent" THEN publish.dead_connections
    ELSE Append(publish.dead_connections, publish.current)

\* broadcast(), lines 62-72: the awaited send ends, a connection whose send
\* raised being noted as dead; the iterator of the list itself hands out the
\* item at its position, the list being that long, and moves one on, whatever
\* happened to the list meanwhile; send_json is awaited on that item.
broadcast_send ==
    /\ publish.pc = "loop"
    /\ publish.next <= Len(active_connections)
    /\ \E outcome \in SendOutcomes :
         /\ outcome = "sent" \/ Caught(outcome)
         /\ publish' = [ publish EXCEPT
              !.next = publish.next + 1,
              !.current = active_connections[publish.next],
              !.attempted = Append(@, active_connections[publish.next]),
              !.dead_connections = AfterSend(outcome) ]
    /\ UNCHANGED <<active_connections, accepted, added, socketFrame>>

\* broadcast(), lines 62-80: the awaited send ends and the iterator finds the
\* list no longer than its position; every dead connection is disconnected
\* (disconnect awaits nothing, so this runs in one piece) and broadcast
\* returns.
broadcast_end ==
    /\ publish.pc = "loop"
    /\ publish.next > Len(active_connections)
    /\ \E outcome \in SendOutcomes :
         /\ outcome = "sent" \/ Caught(outcome)
         /\ active_connections' =
               RemoveAll(active_connections, AfterSend(outcome))
         /\ publish' = [ publish EXCEPT !.pc = "returned", !.current = 0,
                           !.dead_connections = AfterSend(outcome) ]
    /\ UNCHANGED <<accepted, added, socketFrame>>

\* broadcast(), lines 64-72: the awaited send raises what line 67 does not
\* catch, and broadcast ends by that exception, the list left as it is.
broadcast_raise ==
    /\ publish.pc = "loop"
    /\ \E outcome \in SendOutcomes :
         /\ outcome # "sent" /\ ~Caught(outcome)
         /\ publish' = [ publish EXCEPT !.pc = "raised", !.error = outcome ]
    /\ UNCHANGED <<active_connections, accepted, added, socketFrame>>

\* Control is back in _polling_loop: after line 239 when broadcast returned;
\* in the handler of line 286 (the task ends, a later start() makes the next)
\* or of line 245 when it raised.
broadcast_return ==
    /\ publish.pc \in { "returned", "raised" }
    /\ publish' = NoPublish
    /\ UNCHANGED <<active_connections, accepted, added, socketFrame>>

NextSocket ==
    \/ connect
    \/ \E websocket \in 1..MaxClients : disconnect(websocket)
    \/ broadcast_begin
    \/ broadcast_send
    \/ broadcast_end
    \/ broadcast_raise
    \/ broadcast_return

SpecSocket == InitSocket /\ [][NextSocket]_vars

NextInterval == CalculateDynamicInterval

SpecInterval == InitInterval /\ [][NextInterval]_vars

max_size == 2

\* Bounds of SpecBuffer.
MaxAdds == 5
MaxFaults == 1

Reading(k) == [ seq |-> k, device_id |-> ((k - 1) % 2) + 1, timestamp |-> k ]

SeqOf(readings) == [ i \in 1..Len(readings) |-> readings[i].seq ]
SeqSet(readings) == { readings[i].seq : i \in 1..Len(readings) }

\* A call of _save_buffer_to_db(readings, buffer_name) at its first statement.
NewFlusher(readings, inline) ==
    [ pc |-> "begin", inline |-> inline, readings |-> readings,
      db_readings |-> <<>>, next |-> 0, loaded |-> 0, saved_count |-> 0,
      excess |-> 0 ]

\* threading.Thread(target=self._save_buffer_to_db, args=(buffer_copy, ..)).start()
StartThread(buffer_copy) == Append(flushers, NewFlusher(buffer_copy, FALSE))

\* Mutant of Full: the threshold test is off by one.
FullLate(buffer) == Len(buffer) > max_size

\* len(self.buffer_x) >= self.max_size
Full(buffer) == Len(buffer) >= max_size

InitBuffer ==
    /\ settings = DefaultSettings /\ calc = NoCalc
    /\ rows = {} /\ clock = 0 /\ next_id = 1 /\ history = <<>>
    /\ buffer_a = <<>> /\ buffer_b = <<>> /\ active_buffer = "a" /\ lock = "free"
    /\ total_saved = 0 /\ flushers = <<>> /\ flush_all_pc = "idle"
    /\ device_settings = DeviceIds /\ adds = 0 /\ persisted = <<>>
    /\ skipped = {} /\ failed = {} /\ faults = 0
    /\ is_running = FALSE /\ polling_task = 0 /\ tasks = <<>> /\ workers = <<>>
    /\ svc_lock = 0 /\ client = "none" /\ wire = {} /\ stopping = {}
    /\ restarting = NoRestart
    /\ param = NoParam /\ buffered = 0
    /\ wall_now = FirstNow /\ last_cleanup_date = 0 /\ woke = NotWoken
    /\ fired = NoneFired
    /\ active_connections = <<>> /\ accepted = 0 /\ publish = NoPublish
    /\ added = 0
    /\ read_call = NoCall /\ read_result = NoReadResult
    /\ reading_data = NoReadingData /\ db_reading = NoRow
    /\ sched = FirstSched
    /\ modbus = NewService /\ connecting = NoConnect

bufferFrame == <<intervalVars, clock, history, busVars, timeVars, socketVars, readingVars, loopVars, connVars>>

\* PingPongBuffer.add_reading(reading_data): one step, under self.lock.
add_reading ==
    /\ lock = "free"
    /\ adds < MaxAdds
    /\ LET r == Reading(adds + 1) IN
       IF active_buffer = "a"
       THEN LET a == Append(buffer_a, r) IN
            IF Full(a)
            THEN /\ active_buffer' = "b"
                 /\ flushers' = StartThread(a)
                 /\ buffer_a' = <<>>
                 /\ UNCHANGED buffer_b
            ELSE /\ buffer_a' = a
                 /\ UNCHANGED <<active_buffer, flushers, buffer_b>>
       ELSE LET b == Append(buffer_b, r) IN
            IF Full(b)
            THEN /\ active_buffer' = "a"
                 /\ flushers' = StartThread(b)
                 /\ buffer_b' = <<>>
                 /\ UNCHANGED buffer_a
            ELSE /\ buffer_b' = b
                 /\ UNCHANGED <<active_buffer, flushers, buffer_a>>
    /\ adds' = adds + 1
    /\ UNCHANGED <<lock, total_saved, flush_all_pc, device_settings, persisted,
                   skipped, failed, faults, rows, next_id, bufferFrame>>

\* DeviceService.delete_device: a device is deleted from device_settings and,
\* by the relationship's cascade, so are its rows of device_readings.
DeleteDevice ==
    /\ 2 \in device_settings
    /\ device_settings' = device_settings \ {2}
    /\ rows' = { r \in rows : r.device_id # 2 }
    /\ UNCHANGED <<buffer_a, buffer_b, active_buffer, lock, total_saved, flushers,
                   flush_all_pc, adds, persisted, skipped, failed, faults,
                   next_id, bufferFrame>>

\* Mutant of KnownDevice: the foreign key protection lets every reading through.
KnowsEveryDevice(reading, valid_device_ids) == TRUE

\* not (reading['device_id'] not in valid_device_ids), line 132.
KnownDevice(reading, valid_device_ids) == reading.device_id \in valid_device_ids

\* _save_buffer_to_db, lines 117-156: the valid device ids are queried and the
\* DeviceReading objects are built; readings of unknown devices are skipped.
\* The query may raise: the outer except logs, rolls back and returns.
SaveBegin(i) ==
    /\ flushers[i].pc = "begin"
    /\ \/ LET f           == flushers[i]
              valid       == device_settings
              IsValid(r)  == KnownDevice(r, valid)
              db_readings == SelectSeq(f.readings, IsValid)
          IN  /\ skipped' = skipped \cup
                    { f.readings[j].seq : j \in { x \in 1..Len(f.readings) :
                                                     ~IsValid(f.readings[x]) } }
              /\ flushers' = [ flushers EXCEPT
                     ![i].db_readings = db_readings,
                     ![i].pc = IF db_readings = <<>> THEN "done" ELSE "insert" ]
              /\ UNCHANGED faults
       \/ /\ faults < MaxFaults
          /\ faults' = faults + 1
          /\ flushers' = [ flushers EXCEPT ![i].pc = "done" ]
          /\ UNCHANGED skipped
    /\ UNCHANGED <<buffer_a, buffer_b, active_buffer, lock, total_saved,
                   flush_all_pc, device_settings, adds, persisted, failed,
                   rows, next_id, bufferFrame>>

\* The rows an INSERT of the readings `ins` (in order) adds to device_readings.
NewRows(ins) ==
    { [ id |-> next_id + j - 1, ts_utc |-> ins[j].timestamp,
        device_id |-> ins[j].device_id ] : j \in 1..Len(ins) }

\* A rollback that leaves the failed batch's rows in the table.
NoRollback(db_readings) == db_readings

\* db.rollback(), line 166: what the failed add_all + commit leaves in the
\* table: nothing.
rollback(db_readings) == <<>>

\* _save_buffer_to_db, lines 158-168: db.add_all + db.commit; when that raises,
\* rollback, and the readings are inserted one by one from the first.
SaveInsert(i) ==
    /\ flushers[i].pc = "insert"
    /\ LET f == flushers[i] IN
       \/ /\ persisted' = persisted \o SeqOf(f.db_readings)
          /\ rows' = rows \cup NewRows(f.db_readings)
          /\ next_id' = next_id + Len(f.db_readings)
          /\ flushers' = [ flushers EXCEPT ![i].saved_count = Len(f.db_readings),
                                           ![i].pc = "load_total" ]
          /\ UNCHANGED <<failed, faults>>
       \/ /\ faults < MaxFaults
          /\ faults' = faults + 1
          /\ persisted' = persisted \o SeqOf(rollback(f.db_readings))
          /\ flushers' = [ flushers EXCEPT ![i].saved_count = 0,
                                           ![i].next = 1,
                                           ![i].pc = "retry" ]
          /\ UNCHANGED <<failed, rows, next_id>>
    /\ UNCHANGED <<buffer_a, buffer_b, active_buffer, lock, total_saved,
                   flush_all_pc, device_settings, adds, skipped, bufferFrame>>

\* Mutant of NextEntry: the loop stays on the entry it has just tried.
SameEntry(k) == k

\* for reading_obj in db_readings, line 170: the entry after entry k.
NextEntry(k) == k + 1

\* _save_buffer_to_db, lines 170-177: one pass of the loop of individual
\* inserts: db.add + db.commit of one reading, which is committed, or raises
\* and is rolled back and passed over.
SaveRetry(i) ==
    /\ flushers[i].pc = "retry"
    /\ LET f           == flushers[i]
           reading_obj == f.db_readings[f.next]
           after       == NextEntry(f.next)
           pc          == IF after > Len(f.db_readings) THEN "load_total"
                                                        ELSE "retry"
       IN
       \/ /\ persisted' = Append(persisted, reading_obj.seq)
          /\ rows' = rows \cup NewRows(<<reading_obj>>)
          /\ next_id' = next_id + 1
          /\ flushers' = [ flushers EXCEPT ![i].saved_count = f.saved_count + 1,
                                           ![i].next = after, ![i].pc = pc ]
          /\ UNCHANGED failed
       \/ /\ failed' = failed \cup {reading_obj.seq}
          /\ flushers' = [ flushers EXCEPT ![i].next = after, ![i].pc = pc ]
          /\ UNCHANGED <<persisted, rows, next_id>>
    /\ UNCHANGED <<buffer_a, buffer_b, active_buffer, lock, total_saved,
                   flush_all_pc, device_settings, adds, skipped, faults,
                   bufferFrame>>

\* self.total_saved += n, first half: the attribute is read.
SaveLoadTotal(i) ==
    /\ flushers[i].pc = "load_total"
    /\ flushers' = [ flushers EXCEPT ![i].loaded = total_saved,
                                     ![i].pc = "store_total" ]
    /\ UNCHANGED <<buffer_a, buffer_b, active_buffer, lock, total_saved,
                   flush_all_pc, device_settings, adds, persisted, skipped,
                   failed, faults, rows, next_id, bufferFrame>>

\* self.total_saved += n, second half: the sum is stored.  No lock is held by
\* a background flush thread, so another flusher may have stored in between.
SaveStoreTotal(i) ==
    /\ flushers[i].pc = "store_total"
    /\ total_saved' = flushers[i].loaded + flushers[i].saved_count
    /\ flushers' = [ flushers EXCEPT ![i].pc = "cleanup_count" ]
    /\ UNCHANGED <<buffer_a, buffer_b, active_buffer, lock,
                   flush_all_pc, device_settings, adds, persisted, skipped,
                   failed, faults, rows, next_id, bufferFrame>>

\* retention.cleanup_on_buffer_flush(), lines 224-228: the rows are counted.
SaveCleanupCount(i) ==
    /\ flushers[i].pc = "cleanup_count"
    /\ LET excess == Excess(Cardinality(rows)) IN
       flushers' = [ flushers EXCEPT ![i].excess = excess,
                        ![i].pc = IF excess > 0 THEN "cleanup_delete" ELSE "done" ]
    /\ UNCHANGED <<buffer_a, buffer_b, active_buffer, lock, total_saved,
                   flush_all_pc, device_settings, adds, persisted, skipped,
                   failed, faults, rows, next_id, bufferFrame>>

\* retention.cleanup_on_buffer_flush(), lines 238-246: the `excess` oldest rows
\* present at this moment are deleted and the deletion is committed.
SaveCleanupDelete(i) ==
    /\ flushers[i].pc = "cleanup_delete"
    /\ \E victims \in OldestRows(rows, Min(flushers[i].excess, Cardinality(rows))) :
          rows' = rows \ victims
    /\ flushers' = [ flushers EXCEPT ![i].pc = "done" ]
    /\ UNCHANGED <<buffer_a, buffer_b, active_buffer, lock, total_saved,
                   flush_all_pc, device_settings, adds, persisted, skipped,
                   failed, faults, next_id, bufferFrame>>

\* The call of _save_buffer_to_db that flush_all is waiting in, if any.
InlineDone ==
    /\ flushers # <<>>
    /\ flushers[Len(flushers)].inline
    /\ flushers[Len(flushers)].pc = "done"

\* flush_all(): self.lock is taken; buffer A, when not empty, is saved.
FlushAllBegin ==
    /\ lock = "free"
    /\ flush_all_pc = "idle"
    /\ lock' = "flush_all"
    /\ IF buffer_a # <<>>
       THEN /\ flushers' = Append(flushers, NewFlusher(buffer_a, TRUE))
            /\ flush_all_pc' = "save_a"
       ELSE /\ flush_all_pc' = "after_a"
            /\ UNCHANGED flushers
    /\ UNCHANGED <<buffer_a, buffer_b, active_buffer, total_saved,
                   device_settings, adds, persisted, skipped, failed, faults,
                   rows, next_id, bufferFrame>>

\* flush_all(): the save of A has returned, A is cleared; B, when not empty, is saved.
FlushAllAfterA ==
    /\ \/ flush_all_pc = "save_a" /\ InlineDone
       \/ flush_all_pc = "after_a"
    /\ buffer_a' = <<>>
    /\ IF buffer_b # <<>>
       THEN /\ flushers' = Append(flushers, NewFlusher(buffer_b, TRUE))
            /\ flush_all_pc' = "save_b"
       ELSE /\ flush_all_pc' = "after_b"
            /\ UNCHANGED flushers
    /\ UNCHANGED <<buffer_b, active_buffer, lock, total_saved,
                   device_settings, adds, persisted, skipped, failed, faults,
                   rows, next_id, bufferFrame>>

\* flush_all(): the save of B has returned, B is cleared, self.lock is released.
FlushAllEnd ==
    /\ \/ flush_all_pc = "save_b" /\ InlineDone
       \/ flush_all_pc = "after_b"
    /\ buffer_b' = <<>>
    /\ lock' = "free"
    /\ flush_all_pc' = "returned"
    /\ UNCHANGED <<buffer_a, active_buffer, total_saved, flushers,
                   device_settings, adds, persisted, skipped, failed, faults,
                   rows, next_id, bufferFrame>>

NextBuffer ==
    \/ add_reading
    \/ DeleteDevice
    \/ \E i \in DOMAIN flushers : SaveBegin(i)
    \/ \E i \in DOMAIN flushers : SaveInsert(i)
    \/ \E i \in DOMAIN flushers : SaveRetry(i)
    \/ \E i \in DOMAIN flushers : SaveLoadTotal(i)
    \/ \E i \in DOMAIN flushers : SaveStoreTotal(i)
    \/ \E i \in DOMAIN flushers : SaveCleanupCount(i)
    \/ \E i \in DOMAIN flushers : SaveCleanupDelete(i)
    \/ FlushAllBegin
    \/ FlushAllAfterA
    \/ FlushAllEnd

SpecBuffer == InitBuffer /\ [][NextBuffer]_vars

\* The flush threads at their first statement: add_reading has been called
\* FlushThreads * max_size times and has started a thread for each full slot.
\* The table is empty or holds rows of an earlier run of the program, and
\* device 2 may have been deleted.
FlushThreads == 1

EarlierRow(k) == [ id |-> 0 - k, ts_utc |-> 0, device_id |-> 1 ]

InitFlush ==
    /\ settings = DefaultSettings /\ calc = NoCalc
    /\ rows \in {{}, {EarlierRow(0)}, {EarlierRow(0), EarlierRow(1)}}
    /\ clock = 0 /\ next_id = 1 /\ history = <<>>
    /\ buffer_a = <<>> /\ buffer_b = <<>> /\ active_buffer = "a" /\ lock = "free"
    /\ total_saved = 0 /\ flush_all_pc = "idle"
    /\ flushers = [ t \in 1..FlushThreads |->
                      NewFlusher([ j \in 1..max_size |->
                                     Reading((t - 1) * max_size + j) ], FALSE) ]
    /\ device_settings \in {DeviceIds, DeviceIds \ {2}}
    /\ adds = FlushThreads * max_size /\ persisted = <<>>
    /\ skipped = {} /\ failed = {} /\ faults = 0
    /\ is_running = FALSE /\ polling_task = 0 /\ tasks = <<>> /\ workers = <<>>
    /\ svc_lock = 0 /\ client = "none" /\ wire = {} /\ stopping = {}
    /\ restarting = NoRestart
    /\ param = NoParam /\ buffered = 0
    /\ wall_now = FirstNow /\ last_cleanup_date = 0 /\ woke = NotWoken
    /\ fired = NoneFired
    /\ active_connections = <<>> /\ accepted = 0 /\ publish = NoPublish
    /\ added = 0
    /\ read_call = NoCall /\ read_result = NoReadResult
    /\ reading_data = NoReadingData /\ db_reading = NoRow
    /\ sched = FirstSched
    /\ modbus = NewService /\ connecting = NoConnect

\* One step of the flush thread i.
FlushStep(i) ==
    \/ SaveBegin(i) \/ SaveInsert(i) \/ SaveRetry(i) \/ SaveLoadTotal(i)
    \/ SaveStoreTotal(i) \/ SaveCleanupCount(i) \/ SaveCleanupDelete(i)

NextFlush ==
    \/ \E i \in DOMAIN flushers : SaveBegin(i)
    \/ \E i \in DOMAIN flushers : SaveInsert(i)
    \/ \E i \in DOMAIN flushers : SaveRetry(i)
    \/ \E i \in DOMAIN flushers : SaveLoadTotal(i)
    \/ \E i \in DOMAIN flushers : SaveStoreTotal(i)
    \/ \E i \in DOMAIN flushers : SaveCleanupCount(i)
    \/ \E i \in DOMAIN flushers : SaveCleanupDelete(i)

\* Every flush runs in a thread of its own (threading.Thread, daemon=True)
\* that takes no lock and waits for nothing but the storage: a thread that
\* can take a step eventually takes it.
SpecFlush ==
    InitFlush /\ [][NextFlush]_vars
              /\ \A i \in 1..FlushThreads : WF_vars(FlushStep(i))

(***************************************************************************)
(* Scheduler, Modbus transport and parameter path (polling_service.py,     *)
(* modbus_service.py, rs485_client.py, api/routes.py, api/pyrometer.py).   *)
(*                                                                         *)
(* One event loop runs start(), stop(), the _polling_loop tasks and the    *)
(* endpoints; every read_temperature call runs in a thread of its own      *)
(* (asyncio.to_thread).  The pyrometer endpoints are coroutines that call  *)
(* the rs485_client functions directly, so a parameter operation runs in   *)
(* the event loop's thread and nothing else of the loop runs meanwhile.    *)
(***************************************************************************)
\* Bounds of SpecBus.
NumDevices == 2
MaxTasks == 2
MaxWorkers == 2

\* The result dictionary read_temperature starts from (lines 104-113).
NoResult == [ status |-> "Err", has_value |-> FALSE, cause |-> "none" ]

\* What the wire can answer to the primary read.
ReadOutcomes == { "ok", "out_of_range", "error_response", "exception" }

\* Mutant of ResultOf: a failed read keeps a primary value.
ResultKeepsValue(cause) ==
    [ status |-> IF cause = "ok" THEN "OK" ELSE "Err", has_value |-> TRUE,
      cause |-> cause ]

\* The result read_temperature returns for each way the read can go:
\* lines 122-131 (connect), 171-175 (error response), 205-212 (range check),
\* 261-271 (exceptions).
ResultOf(cause) ==
    [ status    |-> IF cause = "ok" THEN "OK" ELSE "Err",
      has_value |-> cause \in { "ok", "out_of_range" },
      cause     |-> cause ]

\* Mutant of LockFree: the lock is taken whoever holds it.
LockIgnored(l) == TRUE

\* threading.Lock: `with self._lock` is entered only when nobody holds it.
LockFree(l) == l = 0

\* Mutant of run_until_complete_stop: the pause takes effect and raises.
PauseStopsScheduler(running) == FALSE

\* loop.run_until_complete(polling_service.stop()) called from a coroutine of
\* the running loop: RuntimeError('This event loop is already running') is
\* raised before stop() runs a step; is_running is what it was.
run_until_complete_stop(running) == running

\* loop.run_until_complete(polling_service.start()) in the finally clause, on
\* the running loop: raises in the same way; is_running is what it was.
run_until_complete_start(running) == running

\* The event loop's thread is not inside a parameter operation.
LoopFree == param.pc = "idle" /\ \A s \in stopping : s.pc # "return"

NewTask == [ pc |-> "ready", dev |-> 0, n |-> 0, cancel |-> FALSE, worker |-> 0,
             got |-> <<>>, broke |-> FALSE ]

\* A task that has ended; its locals are gone.
EndedTask == [ NewTask EXCEPT !.pc = "ended" ]

\* asyncio.to_thread(modbus_service.read_temperature, device_config)
NewWorker(t, d) == [ pc |-> "start", task |-> t, dev |-> d, result |-> NoResult ]

\* read_temperature returns `res` in worker w.  The future of a read whose
\* task has ended is cancelled, so that result reaches nobody and is dropped.
Returned(w, res) ==
    [ workers EXCEPT ![w].pc = "done",
                     ![w].result = IF tasks[workers[w].task].pc = "ended"
                                   THEN NoResult ELSE res ]

\* The worker is inside `with self._lock` of read_temperature.
InCriticalSection(w) == workers[w].pc \in { "connected", "primary", "ambient" }

InitBus ==
    /\ settings = DefaultSettings /\ calc = NoCalc
    /\ rows = {} /\ clock = 0 /\ next_id = 1 /\ history = <<>>
    /\ buffer_a = <<>> /\ buffer_b = <<>> /\ active_buffer = "a" /\ lock = "free"
    /\ total_saved = 0 /\ flushers = <<>> /\ flush_all_pc = "idle"
    /\ device_settings = DeviceIds /\ adds = 0 /\ persisted = <<>>
    /\ skipped = {} /\ failed = {} /\ faults = 0
    /\ is_running = FALSE /\ polling_task = 0 /\ tasks = <<>> /\ workers = <<>>
    /\ svc_lock = 0 /\ client = "none" /\ wire = {} /\ stopping = {}
    /\ restarting = NoRestart
    /\ param = NoParam /\ buffered = 0
    /\ wall_now = FirstNow /\ last_cleanup_date = 0 /\ woke = NotWoken
    /\ fired = NoneFired
    /\ active_connections = <<>> /\ accepted = 0 /\ publish = NoPublish
    /\ added = 0
    /\ read_call = NoCall /\ read_result = NoReadResult
    /\ reading_data = NoReadingData /\ db_reading = NoRow
    /\ sched = FirstSched
    /\ modbus = NewService /\ connecting = NoConnect

busFrame == <<intervalVars, retentionVars, bufferVars, timeVars, socketVars, readingVars, loopVars, connVars>>

\* restart(), left alone by most steps.
busRest == <<restarting>>

\* Mutant of StartNeeded: start() goes on although already running.
StartAlways(running) == TRUE

\* start(), lines 35-37: `if self.is_running: return`.
StartNeeded(running) == ~running

\* PollingService.start(): lifespan startup, POST /polling/resume.  A no-op
\* when already running, else is_running is set and the loop task created.
start ==
    /\ LoopFree
    /\ IF StartNeeded(is_running)
       THEN /\ Len(tasks) < MaxTasks
            /\ is_running' = TRUE
            /\ tasks' = Append(tasks, NewTask)
            /\ polling_task' = Len(tasks) + 1
       ELSE UNCHANGED <<is_running, tasks, polling_task>>
    /\ UNCHANGED <<workers, svc_lock, client, wire, stopping, param, buffered, busRest, busFrame>>

\* stop(), lines 67-74: is_running is cleared, the task cancelled and awaited.
StopAwaiting == [ task |-> polling_task, pc |-> "await" ]

\* PollingService.stop() up to `await self.polling_task` (lines 60-74):
\* lifespan shutdown, POST /polling/pause.  (Not running: stop() returns at
\* once, changing nothing.)
stop_begin ==
    /\ LoopFree
    /\ is_running
    /\ is_running' = FALSE
    /\ tasks' = [ tasks EXCEPT ![polling_task].cancel =
                     tasks[polling_task].pc # "ended" ]
    /\ stopping' = stopping \cup { StopAwaiting }
    /\ UNCHANGED <<polling_task, workers, svc_lock, client, wire, param,
                   buffered, busRest, busFrame>>

\* PollingService.stop() after the awaited task has ended (lines 75-92):
\* reading_buffer.flush_all(), then modbus_service.disconnect().
stop_end(s) ==
    /\ LoopFree
    /\ s \in stopping
    /\ s.pc = "await"
    /\ tasks[s.task].pc = "ended"
    /\ buffered' = 0
    /\ client' = "none"
    /\ stopping' = (stopping \ {s}) \cup { [ s EXCEPT !.pc = "return" ] }
    /\ UNCHANGED <<is_running, polling_task, tasks, workers, svc_lock, wire,
                   param, busRest, busFrame>>

\* PollingService.stop(), lines 94-95: stop() returns to its caller (to
\* restart(), which goes on to sleep 1 s, when restart() called it).  The
\* worker threads have been running since disconnect().
stop_return(s) ==
    /\ s \in stopping
    /\ s.pc = "return"
    /\ stopping' = stopping \ {s}
    /\ restarting' = IF restarting.pc = "stopping" /\ restarting.task = s.task
                     THEN [ restarting EXCEPT !.pc = "sleeping" ]
                     ELSE restarting
    /\ UNCHANGED <<is_running, polling_task, tasks, workers, svc_lock, client,
                   wire, param, buffered, busFrame>>

\* PollingService.restart(), lines 105-106: `await self.stop()`, then
\* `await asyncio.sleep(1)`.
restart_begin ==
    /\ LoopFree
    /\ restarting.pc = "idle"
    /\ IF is_running
       THEN /\ is_running' = FALSE
            /\ tasks' = [ tasks EXCEPT ![polling_task].cancel =
                             tasks[polling_task].pc # "ended" ]
            /\ stopping' = stopping \cup { StopAwaiting }
            /\ restarting' = [ pc |-> "stopping", task |-> polling_task ]
       ELSE /\ Len(tasks) < MaxTasks
            /\ restarting' = [ pc |-> "sleeping", task |-> 0 ]
            /\ UNCHANGED <<is_running, tasks, stopping>>
    /\ UNCHANGED <<polling_task, workers, svc_lock, client, wire, param,
                   buffered, busFrame>>

\* PollingService.restart(), line 107: after the sleep, `await self.start()`.
restart_start ==
    /\ LoopFree
    /\ restarting.pc = "sleeping"
    /\ restarting' = NoRestart
    /\ IF StartNeeded(is_running)
       THEN /\ Len(tasks) < MaxTasks
            /\ is_running' = TRUE
            /\ tasks' = Append(tasks, NewTask)
            /\ polling_task' = Len(tasks) + 1
       ELSE UNCHANGED <<is_running, tasks, polling_task>>
    /\ UNCHANGED <<workers, svc_lock, client, wire, stopping, param, buffered, busFrame>>

\* reading_buffer.add_reading as seen from the scheduler: the number of
\* readings waiting in the slots, back to 0 when the threshold flush starts.
BufferedAfterAdd == IF buffered + 1 >= max_size THEN 0 ELSE buffered + 1

\* _polling_loop, top of `while self.is_running` (lines 164-210): the enabled
\* devices are fetched ([] when there is none or the query fails); with no
\* device the task sleeps and retries, else the first read is dispatched.
TaskRun(t) ==
    /\ LoopFree
    /\ tasks[t].pc \in { "ready", "sleep_cycle" }
    /\ ~tasks[t].cancel
    /\ Len(workers) < MaxWorkers
    /\ IF ~is_running
       THEN /\ tasks' = [ tasks EXCEPT ![t] = EndedTask ]
            /\ UNCHANGED workers
       ELSE \E n \in { 0, NumDevices } :
              IF n = 0
              THEN /\ tasks' = [ tasks EXCEPT ![t].pc = "sleep_cycle", ![t].n = 0,
                                   ![t].dev = 0, ![t].got = <<>>,
                                   ![t].broke = FALSE ]
                   /\ UNCHANGED workers
              ELSE /\ workers' = Append(workers, NewWorker(t, 1))
                   /\ tasks' = [ tasks EXCEPT ![t].pc = "await_read", ![t].n = n,
                                   ![t].dev = 1, ![t].got = <<>>,
                                   ![t].broke = FALSE,
                                   ![t].worker = Len(workers) + 1 ]
    /\ UNCHANGED <<is_running, polling_task, svc_lock, client, wire, stopping,
                   param, buffered, busRest, busFrame>>

\* _polling_loop, lines 207-251: the awaited read has returned; the reading is
\* added to the buffer and broadcast, then the task sleeps 0.5 s.
TaskReadDone(t) ==
    /\ LoopFree
    /\ tasks[t].pc = "await_read"
    /\ ~tasks[t].cancel
    /\ workers[tasks[t].worker].pc = "done"
    /\ LET r == workers[tasks[t].worker].result IN
       tasks' = [ tasks EXCEPT ![t].pc = "sleep_dev",
                    ![t].got = Append(tasks[t].got,
                        [ device |-> tasks[t].dev, status |-> r.status,
                          has_value |-> r.has_value, cause |-> r.cause ]) ]
    /\ workers' = [ workers EXCEPT ![tasks[t].worker].result = NoResult ]
    /\ buffered' = BufferedAfterAdd
    /\ UNCHANGED <<is_running, polling_task, svc_lock, client, wire,
                   stopping, param, busRest, busFrame>>

\* _polling_loop, lines 188-210 and 253-284: after the 0.5 s sleep the next
\* device is read, unless is_running is false (break); after the last device
\* the interval is computed and the task sleeps until the next cycle.
TaskNextDevice(t) ==
    /\ LoopFree
    /\ tasks[t].pc = "sleep_dev"
    /\ ~tasks[t].cancel
    /\ IF tasks[t].dev < tasks[t].n
       THEN IF ~is_running
            THEN /\ tasks' = [ tasks EXCEPT ![t].pc = "sleep_cycle",
                                            ![t].broke = TRUE ]
                 /\ UNCHANGED workers
            ELSE /\ Len(workers) < MaxWorkers
                 /\ workers' = Append(workers, NewWorker(t, tasks[t].dev + 1))
                 /\ tasks' = [ tasks EXCEPT ![t].pc = "await_read",
                                            ![t].dev = tasks[t].dev + 1,
                                            ![t].worker = Len(workers) + 1 ]
       ELSE /\ tasks' = [ tasks EXCEPT ![t].pc = "sleep_cycle" ]
            /\ UNCHANGED workers
    /\ UNCHANGED <<is_running, polling_task, svc_lock, client, wire, stopping,
                   param, buffered, busRest, busFrame>>

\* _polling_loop, lines 286-288: task.cancel() makes the pending await raise
\* CancelledError; the loop breaks and the task ends.  A read already handed
\* to a thread goes on without the task.
TaskCancelled(t) ==
    /\ LoopFree
    /\ tasks[t].pc # "ended"
    /\ tasks[t].cancel
    /\ tasks' = [ tasks EXCEPT ![t] = EndedTask ]
    /\ workers' = [ w \in DOMAIN workers |->
                      IF workers[w].task = t
                      THEN [ workers[w] EXCEPT !.result = NoResult ]
                      ELSE workers[w] ]
    /\ UNCHANGED <<is_running, polling_task, svc_lock, client, wire,
                   stopping, param, buffered, busRest, busFrame>>

\* read_temperature, lines 116-131: the lock is taken and connect() is called;
\* an open client is reused, else a client is created and the port opened.
\* A failed connect returns the Err result and leaves the lock.
WorkerEnter(w) ==
    /\ workers[w].pc = "start"
    /\ LockFree(svc_lock)
    /\ \E ok \in BOOLEAN :
         /\ client = "open" => ok
         /\ IF ok
            THEN /\ client' = "open"
                 /\ svc_lock' = w
                 /\ workers' = [ workers EXCEPT ![w].pc = "connected" ]
            ELSE /\ client' = "none"
                 /\ svc_lock' = 0
                 /\ workers' = Returned(w, ResultOf("connect_failed"))
    /\ UNCHANGED <<is_running, polling_task, tasks, wire, stopping, param,
                   buffered, busRest, busFrame>>

\* read_temperature, lines 150-164: the primary read request goes out.  If
\* disconnect() has reset self.client meanwhile the call raises and the Err
\* result is returned.
WorkerSend(w) ==
    /\ workers[w].pc = "connected"
    /\ IF client = "none"
       THEN /\ workers' = Returned(w, ResultOf("exception"))
            /\ svc_lock' = 0
            /\ UNCHANGED wire
       ELSE /\ workers' = [ workers EXCEPT ![w].pc = "primary" ]
            /\ wire' = wire \cup {w}
            /\ UNCHANGED svc_lock
    /\ UNCHANGED <<is_running, polling_task, tasks, client, stopping, param,
                   buffered, busRest, busFrame>>

\* read_temperature, lines 170-232: the primary answer (or a timeout) comes
\* back.  An error response or an exception returns the Err result; otherwise
\* the value is decoded and range-checked and the ambient request goes out
\* (raising, and being ignored, if self.client has been reset).
WorkerPrimary(w) ==
    /\ workers[w].pc = "primary"
    /\ \E cause \in ReadOutcomes :
         IF cause \in { "error_response", "exception" }
         THEN /\ workers' = Returned(w, ResultOf(cause))
              /\ wire' = wire \ {w}
              /\ svc_lock' = IF svc_lock = w THEN 0 ELSE svc_lock
         ELSE IF client = "none"
              THEN /\ workers' = Returned(w, ResultOf(cause))
                   /\ wire' = wire \ {w}
                   /\ svc_lock' = IF svc_lock = w THEN 0 ELSE svc_lock
              ELSE /\ workers' = [ workers EXCEPT ![w].pc = "ambient",
                                     ![w].result = ResultOf(cause) ]
                   /\ UNCHANGED <<wire, svc_lock>>
    /\ UNCHANGED <<is_running, polling_task, tasks, client, stopping, param,
                   buffered, busRest, busFrame>>

\* read_temperature, lines 234-259: the ambient answer comes back (any failure
\* is only logged); the result is returned and the lock left.
WorkerAmbient(w) ==
    /\ workers[w].pc = "ambient"
    /\ workers' = Returned(w, workers[w].result)
    /\ wire' = wire \ {w}
    /\ svc_lock' = IF svc_lock = w THEN 0 ELSE svc_lock
    /\ UNCHANGED <<is_running, polling_task, tasks, client, stopping, param,
                   buffered, busRest, busFrame>>

\* Bounds taken as exclusive: the bounds themselves are refused.
InRangeExclusive(value, min_value, max_value) ==
    min_value < value /\ value < max_value

\* write_parameter, lines 591-599: a value below min_value or above max_value
\* raises EmissivityError; both comparisons are strict, so the bounds
\* themselves pass.
InRange(value, min_value, max_value) ==
    ~(value < min_value) /\ ~(value > max_value)

\* The bounds write_time_interval passes to write_parameter (seconds, scale
\* factor 1), and the values a caller may hand in: around and on the bounds.
MIN_TIME_INTERVAL == 1
MAX_TIME_INTERVAL == 3600
WriteValues == { MIN_TIME_INTERVAL - 1, MIN_TIME_INTERVAL, MIN_TIME_INTERVAL + 1,
                 MAX_TIME_INTERVAL, MAX_TIME_INTERVAL + 1 }

\* The slope and emissivity bounds of rs485_client.py, lines 38-47, in the
\* thousandths the device registers hold (scale factor 1000): a slope value
\* is modelled by the integer value * 1000, which write_parameter computes as
\* int(round(value * scale_factor)).
MIN_EMISSIVITY_INT == 10
MAX_EMISSIVITY_INT == 1300
MIN_SLOPE_INT == 800
MAX_SLOPE_INT == 1200

\* The values a caller may hand to write_slope: around and on the emissivity
\* bounds and the slope bounds.
SlopeValues == { MIN_EMISSIVITY_INT - 1, MIN_EMISSIVITY_INT, MIN_SLOPE_INT - 1,
                 MIN_SLOPE_INT, MAX_SLOPE_INT, MAX_SLOPE_INT + 1,
                 MAX_EMISSIVITY_INT, MAX_EMISSIVITY_INT + 1 }

\* The values handed to each kind of operation.
ValuesOf(kind) ==
    CASE kind = "write"       -> WriteValues
      [] kind = "write_slope" -> SlopeValues
      [] OTHER                -> {0}

\* min_value and max_value as the wrappers pass them to write_parameter:
\* write_time_interval (lines 702-705) its own bounds, write_slope (lines
\* 679-682) min_value=MIN_EMISSIVITY, max_value=MAX_EMISSIVITY.
MinValue(kind) ==
    IF kind = "write_slope" THEN MIN_EMISSIVITY_INT ELSE MIN_TIME_INTERVAL
MaxValue(kind) ==
    IF kind = "write_slope" THEN MAX_EMISSIVITY_INT ELSE MAX_TIME_INTERVAL

\* The finally clause taken as starting polling whatever the flag says.
FinallyStarts(polling_was_running, running) == TRUE

\* The finally clause of read_parameter / write_parameter: polling is started
\* again only if it was running when the function was entered.
Finally(polling_was_running, running) ==
    IF polling_was_running THEN run_until_complete_start(running) ELSE running

\* read_parameter / write_parameter (read_emissivity, write_emissivity and
\* the wrappers alike) entered from an endpoint.  With polling running the
\* pause is attempted and raises: the function is on its way to the finally
\* clause without validating and without opening the port.  With
\* polling stopped a write validates its value (against the bounds its
\* wrapper passes) and then, like a read, goes on to open its own client.
ParamCall(kind) ==
    /\ LoopFree
    /\ \E value \in ValuesOf(kind) :
         LET op == [ NoParam EXCEPT !.kind = kind, !.value = value,
                                    !.polling_was_running = is_running ]
         IN  IF is_running
             THEN /\ is_running' = run_until_complete_stop(is_running)
                  /\ param' = [ op EXCEPT !.pc = "finally",
                                          !.error = "runtime" ]
             ELSE IF kind # "read"
                     /\ ~InRange(value, MinValue(kind), MaxValue(kind))
             THEN /\ param' = [ op EXCEPT !.pc = "return",
                                          !.error = "validation" ]
                  /\ is_running' = Finally(FALSE, is_running)
             ELSE /\ param' = [ op EXCEPT !.pc = "connect" ]
                  /\ UNCHANGED is_running
    /\ UNCHANGED <<polling_task, tasks, workers, svc_lock, client, wire, stopping,
                   buffered, busRest, busFrame>>

\* The finally clause (lines 537-546, 658-667) of an operation whose pause
\* raised: the resume is attempted and raises too.  The operation runs on
\* the event loop's thread, so between its pause and its resume only the
\* reader threads take steps.
ParamFinally ==
    /\ param.pc = "finally"
    /\ is_running' = Finally(param.polling_was_running, is_running)
    /\ param' = [ param EXCEPT !.pc = "return" ]
    /\ UNCHANGED <<polling_task, tasks, workers, svc_lock, client, wire, stopping,
                   buffered, busRest, busFrame>>

\* read_parameter lines 477-508, write_parameter lines 605-627: the
\* function's own ModbusSerialClient is connected (whether a port held open
\* elsewhere can be opened again depends on the platform) and the request
\* goes out; modbus_service._lock is not used.
ParamConnect ==
    /\ param.pc = "connect"
    /\ \E ok \in BOOLEAN :
         IF ok
         THEN /\ param' = [ param EXCEPT !.pc = "in_flight", !.on_wire = TRUE ]
              /\ wire' = wire \cup {0}
              /\ UNCHANGED is_running
         ELSE /\ param' = [ param EXCEPT !.pc = "return", !.error = "connect" ]
              /\ is_running' = Finally(param.polling_was_running, is_running)
              /\ UNCHANGED wire
    /\ UNCHANGED <<polling_task, tasks, workers, svc_lock, client,
                   stopping, buffered, busRest, busFrame>>

\* read_parameter lines 510-535, write_parameter lines 629-656: the answer
\* comes back; the function is about to return the value or to raise
\* EmissivityError; client.close().
ParamReceive ==
    /\ param.pc = "in_flight"
    /\ \E error \in {"none", "modbus"} :
         param' = [ param EXCEPT !.pc = "return", !.error = error ]
    /\ is_running' = Finally(param.polling_was_running, is_running)
    /\ wire' = wire \ {0}
    /\ UNCHANGED <<polling_task, tasks, workers, svc_lock, client,
                   stopping, buffered, busRest, busFrame>>

\* The value or the exception reaches the endpoint, which answers the request.
ParamReturn ==
    /\ param.pc = "return"
    /\ param' = NoParam
    /\ UNCHANGED <<is_running, polling_task, tasks, workers, svc_lock, client, wire,
                   stopping, buffered, busRest, busFrame>>

NextBus ==
    \/ start
    \/ stop_begin
    \/ \E s \in stopping : stop_end(s)
    \/ \E s \in stopping : stop_return(s)
    \/ \E t \in DOMAIN tasks : TaskRun(t)
    \/ \E t \in DOMAIN tasks : TaskReadDone(t)
    \/ \E t \in DOMAIN tasks : TaskNextDevice(t)
    \/ \E t \in DOMAIN tasks : TaskCancelled(t)
    \/ \E w \in DOMAIN workers : WorkerEnter(w)
    \/ \E w \in DOMAIN workers : WorkerSend(w)
    \/ \E w \in DOMAIN workers : WorkerPrimary(w)
    \/ \E w \in DOMAIN workers : WorkerAmbient(w)
    \/ ParamCall("read")
    \/ ParamFinally
    \/ ParamConnect
    \/ ParamReceive
    \/ ParamReturn

SpecBus == InitBus /\ [][NextBus]_vars

\* The parameter endpoints, reads and writes, against the scheduler's switch:
\* start() and stop() in any order with the endpoint calls, a started loop
\* task being cancelled by stop() before it has its first turn.
InitParam ==
    /\ settings = DefaultSettings /\ calc = NoCalc
    /\ rows = {} /\ clock = 0 /\ next_id = 1 /\ history = <<>>
    /\ buffer_a = <<>> /\ buffer_b = <<>> /\ active_buffer = "a" /\ lock = "free"
    /\ total_saved = 0 /\ flushers = <<>> /\ flush_all_pc = "idle"
    /\ device_settings = DeviceIds /\ adds = 0 /\ persisted = <<>>
    /\ skipped = {} /\ failed = {} /\ faults = 0
    /\ is_running = FALSE /\ polling_task = 0 /\ tasks = <<>> /\ workers = <<>>
    /\ svc_lock = 0 /\ client = "none" /\ wire = {} /\ stopping = {}
    /\ restarting = NoRestart
    /\ param = NoParam /\ buffered = 0
    /\ wall_now = FirstNow /\ last_cleanup_date = 0 /\ woke = NotWoken
    /\ fired = NoneFired
    /\ active_connections = <<>> /\ accepted = 0 /\ publish = NoPublish
    /\ added = 0
    /\ read_call = NoCall /\ read_result = NoReadResult
    /\ reading_data = NoReadingData /\ db_reading = NoRow
    /\ sched = FirstSched
    /\ modbus = NewService /\ connecting = NoConnect

NextParam ==
    \/ start
    \/ stop_begin
    \/ \E s \in stopping : stop_end(s)
    \/ \E s \in stopping : stop_return(s)
    \/ \E t \in DOMAIN tasks : TaskCancelled(t)
    \/ \E kind \in {"read", "write", "write_slope"} : ParamCall(kind)
    \/ ParamFinally
    \/ ParamConnect
    \/ ParamReceive
    \/ ParamReturn

SpecParam == InitParam /\ [][NextParam]_vars

\* The lifecycle calls on their own: start(), stop() and restart() in any
\* interleaving with the loop tasks and the worker threads.  (restart() is
\* stop() followed by start(), so SpecBus has its behaviours already; the
\* parameter path changes none of the variables the lifecycle reads.)
InitLifecycle ==
    /\ settings = DefaultSettings /\ calc = NoCalc
    /\ rows = {} /\ clock = 0 /\ next_id = 1 /\ history = <<>>
    /\ buffer_a = <<>> /\ buffer_b = <<>> /\ active_buffer = "a" /\ lock = "free"
    /\ total_saved = 0 /\ flushers = <<>> /\ flush_all_pc = "idle"
    /\ device_settings = DeviceIds /\ adds = 0 /\ persisted = <<>>
    /\ skipped = {} /\ failed = {} /\ faults = 0
    /\ is_running = FALSE /\ polling_task = 0 /\ tasks = <<>> /\ workers = <<>>
    /\ svc_lock = 0 /\ client = "none" /\ wire = {} /\ stopping = {}
    /\ restarting = NoRestart
    /\ param = NoParam /\ buffered = 0
    /\ wall_now = FirstNow /\ last_cleanup_date = 0 /\ woke = NotWoken
    /\ fired = NoneFired
    /\ active_connections = <<>> /\ accepted = 0 /\ publish = NoPublish
    /\ added = 0
    /\ read_call = NoCall /\ read_result = NoReadResult
    /\ reading_data = NoReadingData /\ db_reading = NoRow
    /\ sched = FirstSched
    /\ modbus = NewService /\ connecting = NoConnect

NextLifecycle ==
    \/ start
    \/ stop_begin
    \/ \E s \in stopping : stop_end(s)
    \/ \E s \in stopping : stop_return(s)
    \/ restart_begin
    \/ restart_start
    \/ \E t \in DOMAIN tasks : TaskRun(t)
    \/ \E t \in DOMAIN tasks : TaskReadDone(t)
    \/ \E t \in DOMAIN tasks : TaskNextDevice(t)
    \/ \E t \in DOMAIN tasks : TaskCancelled(t)
    \/ \E w \in DOMAIN workers : WorkerEnter(w)
    \/ \E w \in DOMAIN workers : WorkerSend(w)
    \/ \E w \in DOMAIN workers : WorkerPrimary(w)
    \/ \E w \in DOMAIN workers : WorkerAmbient(w)

SpecLifecycle == InitLifecycle /\ [][NextLifecycle]_vars

\* asyncio.to_thread: a reader thread whose result has been taken (or
\* dropped) leaves read_temperature and goes back to the pool.
WorkerExit ==
    /\ Len(workers) > 0
    /\ workers[Len(workers)].pc = "done"
    /\ workers[Len(workers)].result = NoResult
    /\ \A t \in DOMAIN tasks :
         tasks[t].pc = "await_read" => tasks[t].worker # Len(workers)
    /\ workers' = SubSeq(workers, 1, Len(workers) - 1)
    /\ UNCHANGED <<is_running, polling_task, tasks, svc_lock, client, wire,
                   stopping, param, buffered, busRest, busFrame>>

\* One step of a loop task, a reader thread, a parameter call under way.
TaskStep ==
    \E t \in DOMAIN tasks : TaskRun(t) \/ TaskReadDone(t) \/ TaskNextDevice(t)
WorkerStep ==
    \/ \E w \in DOMAIN workers :
         WorkerEnter(w) \/ WorkerSend(w) \/ WorkerPrimary(w) \/ WorkerAmbient(w)
    \/ WorkerExit
ParamStep == ParamFinally \/ ParamConnect \/ ParamReceive \/ ParamReturn

\* Acquisition with parameter operations and nobody calling stop(): the
\* application has started (lifespan, main.py line 67), endpoints call the
\* parameter functions at any time, reader threads come and go.
InitHeal ==
    /\ settings = DefaultSettings /\ calc = NoCalc
    /\ rows = {} /\ clock = 0 /\ next_id = 1 /\ history = <<>>
    /\ buffer_a = <<>> /\ buffer_b = <<>> /\ active_buffer = "a" /\ lock = "free"
    /\ total_saved = 0 /\ flushers = <<>> /\ flush_all_pc = "idle"
    /\ device_settings = DeviceIds /\ adds = 0 /\ persisted = <<>>
    /\ skipped = {} /\ failed = {} /\ faults = 0
    /\ is_running = FALSE /\ polling_task = 0 /\ tasks = <<>> /\ workers = <<>>
    /\ svc_lock = 0 /\ client = "none" /\ wire = {} /\ stopping = {}
    /\ restarting = NoRestart
    /\ param = NoParam /\ buffered = 0
    /\ wall_now = FirstNow /\ last_cleanup_date = 0 /\ woke = NotWoken
    /\ fired = NoneFired
    /\ active_connections = <<>> /\ accepted = 0 /\ publish = NoPublish
    /\ added = 0
    /\ read_call = NoCall /\ read_result = NoReadResult
    /\ reading_data = NoReadingData /\ db_reading = NoRow
    /\ sched = FirstSched
    /\ modbus = NewService /\ connecting = NoConnect

NextHeal ==
    \/ start
    \/ \E t \in DOMAIN tasks : TaskRun(t)
    \/ \E t \in DOMAIN tasks : TaskReadDone(t)
    \/ \E t \in DOMAIN tasks : TaskNextDevice(t)
    \/ \E w \in DOMAIN workers : WorkerEnter(w)
    \/ \E w \in DOMAIN workers : WorkerSend(w)
    \/ \E w \in DOMAIN workers : WorkerPrimary(w)
    \/ \E w \in DOMAIN workers : WorkerAmbient(w)
    \/ WorkerExit
    \/ \E kind \in {"read", "write"} : ParamCall(kind)
    \/ ParamFinally
    \/ ParamConnect
    \/ ParamReceive
    \/ ParamReturn

\* The event loop runs its ready callbacks in FIFO order, so a loop task that
\* is ready again and again gets its turn between endpoint calls (strong
\* fairness); a thread that can run does run, and a blocking parameter call
\* ends because every serial operation has a timeout (weak fairness).
SpecHeal ==
    /\ InitHeal /\ [][NextHeal]_vars
    /\ SF_vars(TaskStep) /\ WF_vars(WorkerStep) /\ WF_vars(ParamStep)

(***************************************************************************)
(* SpecLoop: the control flow of one _polling_loop task and what becomes   *)
(* of an exception raised in it.  Every call the loop makes may raise an   *)
(* exception of class Exception; a CancelledError, which is not one, is    *)
(* raised at the await the task is suspended in once stop() has cancelled  *)
(* it.                                                                     *)
(***************************************************************************)

\* Bounds of SpecLoop: the cycles begun and the exceptions raised.
MaxCycles     == 2
MaxLoopFaults == 2

InitLoop ==
    /\ settings = DefaultSettings /\ calc = NoCalc
    /\ rows = {} /\ clock = 0 /\ next_id = 1 /\ history = <<>>
    /\ buffer_a = <<>> /\ buffer_b = <<>> /\ active_buffer = "a" /\ lock = "free"
    /\ total_saved = 0 /\ flushers = <<>> /\ flush_all_pc = "idle"
    /\ device_settings = DeviceIds /\ adds = 0 /\ persisted = <<>>
    /\ skipped = {} /\ failed = {} /\ faults = 0
    /\ is_running = FALSE /\ polling_task = 0 /\ tasks = <<>> /\ workers = <<>>
    /\ svc_lock = 0 /\ client = "none" /\ wire = {} /\ stopping = {}
    /\ restarting = NoRestart
    /\ param = NoParam /\ buffered = 0
    /\ wall_now = FirstNow /\ last_cleanup_date = 0 /\ woke = NotWoken
    /\ fired = NoneFired
    /\ active_connections = <<>> /\ accepted = 0 /\ publish = NoPublish
    /\ added = 0
    /\ read_call = NoCall /\ read_result = NoReadResult
    /\ reading_data = NoReadingData /\ db_reading = NoRow
    /\ sched = FirstSched
    /\ modbus = NewService /\ connecting = NoConnect

loopFrame == <<intervalVars, retentionVars, bufferVars, busVars, timeVars,
               socketVars, readingVars,
    connVars>>

\* Mutant of CycleHandler: the loop has no `except Exception`.
CycleHandlerNone(error) ==
    IF error = "CancelledError" THEN "ended" ELSE "crashed"

\* _polling_loop, lines 286-294: where an exception raised in the try block of
\* a cycle takes the task: `except asyncio.CancelledError: break` ends the
\* loop, `except Exception` logs and sleeps 5 s.
CycleHandler(error) ==
    IF error = "CancelledError" THEN "ended" ELSE "backoff"

\* _polling_loop, lines 245-246: `except Exception as device_error` logs and
\* goes on to the 0.5 s sleep; what is no Exception goes up to the handlers
\* of the cycle.
DeviceHandler(error) ==
    IF error = "Exception" THEN "sleep_dev" ELSE CycleHandler(error)

\* The task after `error` was raised at the point named by `fault` and
\* handled by the handler that leads to `pc`.
Raised(fault, pc) ==
    [ sched EXCEPT !.pc = pc,
                   !.faults = IF fault = "cancel" THEN @ ELSE @ + 1,
                   !.fault = fault,
                   !.reason = IF pc = "ended" THEN "cancelled"
                              ELSE IF pc = "crashed" THEN "exception"
                              ELSE @ ]

CanFail == sched.faults < MaxLoopFaults

\* _polling_loop, lines 164-178: the test of `while self.is_running`, then
\* cycle_count += 1 and _get_enabled_devices(): the devices are returned ([]
\* when the query raises: lines 124-126), or SessionLocal() or db.close()
\* raises, outside its try block.  Without devices the task sleeps 5 s.
loop_top ==
    /\ sched.pc = "top"
    /\ IF ~sched.is_running
       THEN sched' = [ sched EXCEPT !.pc = "ended", !.reason = "not_running" ]
       ELSE /\ sched.cycle_count < MaxCycles
            /\ \/ \E n \in 0..NumDevices :
                    sched' = [ sched EXCEPT
                       !.cycle_count = @ + 1, !.n = n,
                       !.device = IF n = 0 THEN 0 ELSE 1,
                       !.pc = IF n = 0 THEN "sleep_no_devices"
                              ELSE "await_read" ]
               \/ /\ CanFail
                  /\ sched' = [ Raised("registry", CycleHandler("Exception"))
                                  EXCEPT !.cycle_count = @ + 1 ]
    /\ UNCHANGED loopFrame

\* _polling_loop, lines 207-239: the awaited read_temperature returns or
\* raises; reading_data is built and add_reading returns or raises; broadcast
\* is called and awaited.
device_read ==
    /\ sched.pc = "await_read"
    /\ \/ sched' = [ sched EXCEPT !.pc = "await_broadcast" ]
       \/ /\ CanFail
          /\ \E fault \in { "read", "add" } :
               sched' = Raised(fault, DeviceHandler("Exception"))
    /\ UNCHANGED loopFrame

\* _polling_loop, lines 227-251: broadcast returns or raises; the task sleeps
\* 0.5 s.
device_broadcast ==
    /\ sched.pc = "await_broadcast"
    /\ \/ sched' = [ sched EXCEPT !.pc = "sleep_dev" ]
       \/ /\ CanFail
          /\ sched' = Raised("broadcast", DeviceHandler("Exception"))
    /\ UNCHANGED loopFrame

\* _polling_loop, lines 188-191 and 253-284: after the 0.5 s sleep the for
\* loop takes the next device, unless is_running is false (break); after the
\* last device the interval is computed, which may raise, and the task sleeps
\* until the next cycle.
next_device ==
    /\ sched.pc = "sleep_dev"
    /\ IF sched.device < sched.n /\ sched.is_running
       THEN sched' = [ sched EXCEPT !.device = @ + 1, !.pc = "await_read" ]
       ELSE \/ sched' = [ sched EXCEPT !.pc = "sleep_cycle" ]
            \/ /\ CanFail
               /\ sched' = Raised("interval", CycleHandler("Exception"))
    /\ UNCHANGED loopFrame

\* The sleep at the end of a cycle (lines 281-284), the 5 s sleep without
\* devices (line 177, then `continue`) or the 5 s sleep of the handler (line
\* 294) is over: back to the test of the while loop.
sleep_over ==
    /\ sched.pc \in { "sleep_cycle", "sleep_no_devices", "backoff" }
    /\ sched' = [ sched EXCEPT !.pc = "top" ]
    /\ UNCHANGED loopFrame

\* stop(), lines 67-70: is_running is cleared and the task cancelled.
stop_loop ==
    /\ sched.is_running
    /\ sched.pc \notin { "ended", "crashed" }
    /\ sched' = [ sched EXCEPT !.is_running = FALSE, !.cancelled = TRUE ]
    /\ UNCHANGED loopFrame

\* The awaits of the try block of a cycle.
AwaitsInTry == { "await_read", "await_broadcast", "sleep_dev", "sleep_cycle",
                 "sleep_no_devices" }

\* CancelledError is raised at the await the task is suspended in: in the try
\* block it goes past `except Exception` of the device (it is a
\* BaseException) to `except asyncio.CancelledError: break`; in the 5 s sleep
\* of the handler, or before the task has run at all, it ends the task as it
\* is.
cancel_delivered ==
    /\ sched.cancelled
    /\ sched.pc \notin { "ended", "crashed" }
    /\ sched' = IF sched.pc \in AwaitsInTry
                THEN Raised("cancel", DeviceHandler("CancelledError"))
                ELSE Raised("cancel", "ended")
    /\ UNCHANGED loopFrame

NextLoop ==
    \/ loop_top
    \/ device_read
    \/ device_broadcast
    \/ next_device
    \/ sleep_over
    \/ stop_loop
    \/ cancel_delivered

SpecLoop == InitLoop /\ [][NextLoop]_vars

(***************************************************************************)
(* SpecConnect: ModbusService.connect and disconnect.  connect is called   *)
(* by read_temperature on a worker thread, under self._lock; disconnect is *)
(* called by PollingService.stop() on the event loop thread, without the   *)
(* lock, also while a worker that outlived its cancelled task is inside    *)
(* connect.  A port is a number (COM3, COM4), None is 0.                    *)
(***************************************************************************)

Ports == { 1, 2 }
Bauds == { 9600, 19200 }

\* Bound of SpecConnect: the client objects created in a behaviour.
MaxCreated == 3

InitConnect ==
    /\ settings = DefaultSettings /\ calc = NoCalc
    /\ rows = {} /\ clock = 0 /\ next_id = 1 /\ history = <<>>
    /\ buffer_a = <<>> /\ buffer_b = <<>> /\ active_buffer = "a" /\ lock = "free"
    /\ total_saved = 0 /\ flushers = <<>> /\ flush_all_pc = "idle"
    /\ device_settings = DeviceIds /\ adds = 0 /\ persisted = <<>>
    /\ skipped = {} /\ failed = {} /\ faults = 0
    /\ is_running = FALSE /\ polling_task = 0 /\ tasks = <<>> /\ workers = <<>>
    /\ svc_lock = 0 /\ client = "none" /\ wire = {} /\ stopping = {}
    /\ restarting = NoRestart
    /\ param = NoParam /\ buffered = 0
    /\ wall_now = FirstNow /\ last_cleanup_date = 0 /\ woke = NotWoken
    /\ fired = NoneFired
    /\ active_connections = <<>> /\ accepted = 0 /\ publish = NoPublish
    /\ added = 0
    /\ read_call = NoCall /\ read_result = NoReadResult
    /\ reading_data = NoReadingData /\ db_reading = NoRow
    /\ sched = FirstSched
    /\ modbus = NewService /\ connecting = NoConnect

connFrame == <<intervalVars, retentionVars, bufferVars, busVars, timeVars,
               socketVars, readingVars, loopVars>>

\* disconnect(), lines 85-96, on the service as it is: the client, if any, is
\* closed and client, current_port and current_baudrate become None.
Disconnected ==
    IF modbus.client = NoClient THEN modbus
    ELSE [ modbus EXCEPT !.client = NoClient, !.current_port = 0,
                         !.current_baudrate = 0,
                         !.closed = @ \cup { modbus.client.id } ]

\* Line 46: port != self.current_port or baudrate != self.current_baudrate.
Differs(port, baudrate) ==
    port # modbus.current_port \/ baudrate # modbus.current_baudrate

\* connect(port, baudrate), lines 44-48: an existing client with another
\* port or baud rate is disconnected.
connect_begin(port, baudrate) ==
    /\ connecting.pc = "idle"
    /\ modbus.created < MaxCreated
    /\ connecting' = [ NoConnect EXCEPT !.pc = "create", !.port = port,
                         !.baudrate = baudrate, !.before = modbus.client ]
    /\ modbus' = IF modbus.client # NoClient /\ Differs(port, baudrate)
                 THEN Disconnected ELSE modbus
    /\ UNCHANGED connFrame

\* connect, lines 51-66 and 76: without a client a ModbusSerialClient is
\* made for the port and baud rate, unless the constructor raises (lines
\* 78-81); with a client connect returns True.
connect_create ==
    /\ connecting.pc = "create"
    /\ IF modbus.client = NoClient
       THEN \/ /\ modbus' = [ modbus EXCEPT
                     !.created = @ + 1,
                     !.client = [ id |-> modbus.created + 1,
                                  port |-> connecting.port,
                                  baudrate |-> connecting.baudrate,
                                  connected |-> FALSE ] ]
               /\ connecting' = [ connecting EXCEPT !.pc = "open" ]
            \/ /\ modbus' = modbus
               /\ connecting' = [ connecting EXCEPT !.pc = "return",
                                                    !.result = FALSE ]
       ELSE /\ modbus' = modbus
            /\ connecting' = [ connecting EXCEPT !.pc = "return",
                                                 !.result = TRUE ]
    /\ UNCHANGED connFrame

\* connect, lines 68-74 and 78-81: self.client.connect() succeeds, fails
\* (client = None, False is returned) or raises, as it does when disconnect
\* has made self.client None meanwhile (client = None, False is returned).
connect_open ==
    /\ connecting.pc = "open"
    /\ IF modbus.client = NoClient
       THEN /\ modbus' = modbus
            /\ connecting' = [ connecting EXCEPT !.pc = "return",
                                                 !.result = FALSE ]
       ELSE \/ /\ modbus' = [ modbus EXCEPT !.client.connected = TRUE ]
               /\ connecting' = [ connecting EXCEPT !.pc = "set_port" ]
            \/ /\ modbus' = [ modbus EXCEPT !.client = NoClient ]
               /\ connecting' = [ connecting EXCEPT !.pc = "return",
                                                    !.result = FALSE ]
    /\ UNCHANGED connFrame

\* connect, line 69: self.current_port = port.
connect_set_port ==
    /\ connecting.pc = "set_port"
    /\ modbus' = [ modbus EXCEPT !.current_port = connecting.port ]
    /\ connecting' = [ connecting EXCEPT !.pc = "set_baudrate" ]
    /\ UNCHANGED connFrame

\* connect, lines 70-72: self.current_baudrate = baudrate; return True.
connect_set_baudrate ==
    /\ connecting.pc = "set_baudrate"
    /\ modbus' = [ modbus EXCEPT !.current_baudrate = connecting.baudrate ]
    /\ connecting' = [ connecting EXCEPT !.pc = "return", !.result = TRUE ]
    /\ UNCHANGED connFrame

\* connect returns to read_temperature (lines 122-125); pc "return" is the
\* instant of the return statement.
connect_return ==
    /\ connecting.pc = "return"
    /\ connecting' = NoConnect
    /\ UNCHANGED <<modbus, connFrame>>

\* PollingService.stop(), lines 87-92: modbus_service.disconnect(), on the
\* event loop thread, whatever a worker thread is doing.
stop_disconnect ==
    /\ modbus.client # NoClient
    /\ connecting.pc # "return"
    /\ modbus' = Disconnected
    /\ connecting' = IF connecting.pc = "idle" THEN connecting
                     ELSE [ connecting EXCEPT !.raced = TRUE ]
    /\ UNCHANGED connFrame

NextConnect ==
    \/ \E port \in Ports, baudrate \in Bauds : connect_begin(port, baudrate)
    \/ connect_create
    \/ connect_open
    \/ connect_set_port
    \/ connect_set_baudrate
    \/ connect_return
    \/ stop_disconnect

SpecConnect == InitConnect /\ [][NextConnect]_vars

(***************************************************************************)
(* SpecReading: one reading from the bus to its row.  read_temperature     *)
(* (modbus_service.py) decodes the registers of the primary and of the     *)
(* ambient response into the result dict; _polling_loop builds             *)
(* reading_data from it and passes it to add_reading; _save_buffer_to_db   *)
(* builds the DeviceReading row.  device_name and timestamp are carried    *)
(* along unchanged and left out.                                           *)
(***************************************************************************)

\* What the device answers to a read of `count` registers: the register
\* words.  One register is an unsigned 16-bit integer; two registers are a
\* big-endian IEEE-754 single: 25.0, -50.0, the next single below -50.0,
\* 1500.0, the next single above 1500.0, 0.125, 20.5 and a NaN.
RegisterSets(count) ==
    CASE count = 1 -> { <<0>>, <<235>>, <<1500>>, <<1501>> }
      [] count = 2 -> { <<16840, 0>>, <<49736, 0>>, <<49736, 1>>,
                        <<17595, 32768>>, <<17595, 32769>>, <<15872, 0>>,
                        <<16804, 0>>, <<32704, 0>> }
      [] OTHER     -> { <<0, 0, 0>> }

\* The ways a register read ends: connect() fails (primary only), the
\* response is an error response, the client raises, or registers arrive.
Responses(count) ==
    { [ kind |-> kd, registers |-> <<>> ] :
        kd \in { "connect_failed", "error", "exception" } }
    \cup { [ kind |-> "registers", registers |-> regs ] :
             regs \in RegisterSets(count) }

FunctionCodes  == { 3, 4, 6 }
RegisterCounts == { 1, 2, 3 }

InitReading ==
    /\ settings = DefaultSettings /\ calc = NoCalc
    /\ rows = {} /\ clock = 0 /\ next_id = 1 /\ history = <<>>
    /\ buffer_a = <<>> /\ buffer_b = <<>> /\ active_buffer = "a" /\ lock = "free"
    /\ total_saved = 0 /\ flushers = <<>> /\ flush_all_pc = "idle"
    /\ device_settings = DeviceIds /\ adds = 0 /\ persisted = <<>>
    /\ skipped = {} /\ failed = {} /\ faults = 0
    /\ is_running = FALSE /\ polling_task = 0 /\ tasks = <<>> /\ workers = <<>>
    /\ svc_lock = 0 /\ client = "none" /\ wire = {} /\ stopping = {}
    /\ restarting = NoRestart
    /\ param = NoParam /\ buffered = 0
    /\ wall_now = FirstNow /\ last_cleanup_date = 0 /\ woke = NotWoken
    /\ fired = NoneFired
    /\ active_connections = <<>> /\ accepted = 0 /\ publish = NoPublish
    /\ added = 0
    /\ \E d \in DeviceIds, fc \in FunctionCodes, n \in RegisterCounts :
         \E p \in Responses(n) :
           \E a \in Responses(n) \ { [ kind |-> "connect_failed", registers |-> <<>> ] } :
             read_call = [ device_id |-> d, function_code |-> fc,
                           register_count |-> n, response |-> p,
                           ambient_response |-> a ]
    /\ read_result = NoReadResult /\ reading_data = NoReadingData
    /\ db_reading = NoRow
    /\ sched = FirstSched
    /\ modbus = NewService /\ connecting = NoConnect

readingFrame == <<intervalVars, retentionVars, bufferVars, busVars, timeVars,
                  socketVars,
    loopVars, connVars>>

\* f'{reg:04X}' (line 181): the four hexadecimal digits of a register word.
Hex04(reg) ==
    << reg \div 4096, (reg \div 256) % 16, (reg \div 16) % 16, reg % 16 >>

\* ' '.join(f'{reg:04X}' for reg in registers), as the list of the words'
\* digits.
RawHex(registers) == [ i \in DOMAIN registers |-> Hex04(registers[i]) ]

\* struct.unpack('>f', struct.pack('>HH', hi, lo)) (lines 197-198): sign,
\* 8 bits of exponent, 23 bits of fraction.
Float32(hi, lo) ==
    LET neg      == hi >= 32768
        exponent == (hi \div 128) % 256
        fraction == (hi % 128) * 65536 + lo
    IN  IF exponent = 255
        THEN IF fraction = 0 THEN Inf(neg) ELSE NaN
        ELSE IF exponent = 0
             THEN Binary(neg, fraction, 149)
             ELSE Binary(neg, 8388608 + fraction, 150 - exponent)

\* Lines 187-203 (and 239-244 for the ambient registers): the value the
\* registers decode to.
Decode(register_count, registers) ==
    IF register_count = 1
    THEN Binary(FALSE, registers[1], 0)
    ELSE Float32(registers[1], registers[2])

\* M / 2^k <= c and M / 2^k >= c for M < 2^24 and 16 <= c < 2^10 * 2,
\* within 32-bit arithmetic.
MagnitudeAtMost(M, k, c) ==
    IF M = 0 THEN TRUE
    ELSE IF k < 0 THEN FALSE
    ELSE IF k >= 20 THEN TRUE
    ELSE M <= c * 2^k
MagnitudeAtLeast(M, k, c) ==
    IF M = 0 THEN FALSE
    ELSE IF k < 0 THEN TRUE
    ELSE IF k >= 20 THEN FALSE
    ELSE M >= c * 2^k

\* value <= c for a bound c >= 16, value >= c for a bound c <= -16, as
\* Python compares a float or int with an int: every comparison with a NaN
\* is false.
AtMost(value, c) ==
    CASE value.kind = "binary" ->
            value.neg \/ MagnitudeAtMost(value.M, value.k, c)
      [] value.kind = "inf"    -> value.neg
      [] OTHER                 -> FALSE
AtLeast(value, c) ==
    CASE value.kind = "binary" ->
            ~value.neg \/ MagnitudeAtMost(value.M, value.k, 0 - c)
      [] value.kind = "inf"    -> ~value.neg
      [] OTHER                 -> FALSE

\* round(value, 2) of a value within the sanity range (lines 206, 248): the
\* nearest hundredth, a tie going to the even one.
Round2(value) ==
    LET shift == IF value.k > 28 THEN value.k - 28 ELSE 0
        M     == value.M \div 2^shift
        k     == value.k - shift
        q     == (M * 100) \div 2^k
        rem2  == 2 * ((M * 100) % 2^k)
        h     == IF rem2 > 2^k \/ (rem2 = 2^k /\ q % 2 = 1) THEN q + 1 ELSE q
    IN  Hundredths(value.neg, h)

\* Mutant of Sane: the bounds themselves are out of range.
SaneExclusive(value) == ~AtMost(value, -50) /\ ~AtLeast(value, 1500)

\* `-50 <= temperature <= 1500` (lines 205, 247).
Sane(value) == AtLeast(value, -50) /\ AtMost(value, 1500)

\* Mutant of FirstResult: the result dict starts out as a stale reading.
FirstResultStale(call) ==
    [ returned |-> TRUE, device_id |-> call.device_id, temperature |-> None,
      ambient_temp |-> None, status |-> "Stale", raw_hex |-> <<>>,
      error_message |-> "" ]

\* Lines 104-113: the result dict as read_temperature first makes it.
FirstResult(call) ==
    [ returned |-> TRUE, device_id |-> call.device_id, temperature |-> None,
      ambient_temp |-> None, status |-> "Err", raw_hex |-> <<>>,
      error_message |-> "" ]

\* Lines 215-257: the ambient registers are read with the same function code
\* and count; result['ambient_temp'] is set only from a response that is no
\* error and decodes within the range, and stays None otherwise, also when
\* the read raises.
AmbientOf(call) ==
    IF call.ambient_response.kind = "registers"
    THEN LET ambient_temperature ==
                 Decode(call.register_count, call.ambient_response.registers)
         IN  IF Sane(ambient_temperature) THEN Round2(ambient_temperature)
             ELSE None
    ELSE None

\* read_temperature, lines 98-271, for one call.
ReadTemperature(call) ==
    LET first == FirstResult(call) IN
    IF call.response.kind = "connect_failed"
    THEN [ first EXCEPT !.error_message = "Cannot connect" ]
    ELSE IF call.function_code \notin { 3, 4 }
    THEN [ first EXCEPT !.error_message = "Invalid function code" ]
    ELSE IF call.response.kind = "exception"
    THEN [ first EXCEPT !.error_message = "Modbus exception" ]
    ELSE IF call.response.kind = "error"
    THEN [ first EXCEPT !.error_message = "Modbus error" ]
    ELSE IF call.register_count \notin { 1, 2 }
    THEN [ first EXCEPT !.raw_hex = RawHex(call.response.registers),
                        !.error_message = "Unsupported register count" ]
    ELSE LET temperature ==
                 Decode(call.register_count, call.response.registers)
             decoded == [ first EXCEPT
                            !.raw_hex = RawHex(call.response.registers) ]
             primary ==
                 IF Sane(temperature)
                 THEN [ decoded EXCEPT !.temperature = Round2(temperature),
                                       !.status = "OK" ]
                 ELSE [ decoded EXCEPT !.temperature = temperature,
                                       !.status = "Err",
                                       !.error_message =
                                           "Temperature out of range" ]
         IN  [ primary EXCEPT !.ambient_temp = AmbientOf(call) ]

\* asyncio.to_thread(modbus_service.read_temperature, device_config) returns
\* (polling_service.py 207-210).
read_temperature ==
    /\ ~read_result.returned
    /\ read_result' = ReadTemperature(read_call)
    /\ UNCHANGED <<read_call, reading_data, db_reading, readingFrame>>

\* polling_service.py 213-221: the dict passed to add_reading.
ReadingData(result) ==
    [ added |-> TRUE, device_id |-> result.device_id,
      temperature |-> result.temperature,
      ambient_temp |-> result.ambient_temp, status |-> result.status,
      raw_hex |-> result.raw_hex ]

\* _polling_loop, lines 213-224: reading_data is built from the result,
\* whatever its status, and added to the buffer.
prepare_reading ==
    /\ read_result.returned
    /\ ~reading_data.added
    /\ reading_data' = ReadingData(read_result)
    /\ UNCHANGED <<read_call, read_result, db_reading, readingFrame>>

\* buffer_service.py line 140: value=reading['temperature'] if it is not
\* None else 0.0.
PrimaryValue(temperature) ==
    IF temperature.kind # "None" THEN temperature ELSE Binary(FALSE, 0, 0)

\* buffer_service.py 136-146: the DeviceReading built from a buffered reading.
DeviceReading(reading) ==
    [ saved |-> TRUE, device_id |-> reading.device_id,
      value |-> PrimaryValue(reading.temperature),
      ambient_temp |-> reading.ambient_temp, status |-> reading.status,
      raw_hex |-> reading.raw_hex ]

\* _save_buffer_to_db, lines 129-147, for this reading.
save_reading ==
    /\ reading_data.added
    /\ ~db_reading.saved
    /\ db_reading' = DeviceReading(reading_data)
    /\ UNCHANGED <<read_call, read_result, reading_data, readingFrame>>

NextReading ==
    \/ read_temperature
    \/ prepare_reading
    \/ save_reading

SpecReading == InitReading /\ [][NextReading]_vars

LastRun == history[Len(history)]

\* C5: two runs of daily_cleanup() in immediate succession (the same clock
\* reading, no insert in between), the first of which was not rolled back by a
\* storage error: the second run deletes 0 rows and leaves the table unchanged.
C5_DailyCleanupIdempotent ==
    ( /\ Len(history) = 2
      /\ history[1].op = "daily_cleanup"
      /\ history[2].op = "daily_cleanup"
      /\ history[1].outcome # "failed_before_commit" )
    => /\ Cardinality(history[2].before \ history[2].after) = 0
       /\ history[2].after = history[2].before
       /\ rows = history[1].after

\* C5 witness: the first run deleted something, and a second run followed.
C5_Witness ==
    /\ Len(history) = 2
    /\ history[1].op = "daily_cleanup"
    /\ history[2].op = "daily_cleanup"
    /\ history[1].outcome = "ok"
    /\ history[2].outcome = "ok"
    /\ history[1].before # history[1].after
    /\ history[1].after # {}

C10_DailyCleanupCutoff ==
    ( /\ history # <<>>
      /\ LastRun.op = "daily_cleanup"
      /\ LastRun.outcome = "ok" )
    => /\ rows = LastRun.after
       /\ \A r \in LastRun.before :
             /\ r.ts_utc <  LastRun.now - retention_days => r \notin rows
             /\ r.ts_utc >= LastRun.now - retention_days => r \in rows
       /\ rows \subseteq LastRun.before

\* C10 witness: a row older than the window was deleted, a row exactly at the
\* cutoff and a recent row were kept.
C10_Witness ==
    /\ history # <<>>
    /\ LastRun.op = "daily_cleanup"
    /\ LastRun.outcome = "ok"
    /\ \E r \in LastRun.before \ rows : r.ts_utc < LastRun.now - retention_days
    /\ \E r \in rows : r.ts_utc = LastRun.now - retention_days
    /\ \E r \in rows : r.ts_utc = LastRun.now
\* Every flush has finished after a flush_all: both slots are empty, flush_all
\* has returned and no call of _save_buffer_to_db is under way.
Quiescent ==
    /\ flush_all_pc = "returned"
    /\ buffer_a = <<>> /\ buffer_b = <<>>
    /\ \A i \in DOMAIN flushers : flushers[i].pc = "done"

\* C3 (as stated): once every flush has finished, the readings inserted, the
\* readings skipped for an unknown device id and the readings dropped on an
\* individual insert failure add up to the number of add_reading calls, and no
\* reading is inserted or counted twice.
C3_BufferConservation ==
    Quiescent =>
        /\ Len(persisted) + Cardinality(skipped) + Cardinality(failed) = adds
        /\ \A i, j \in DOMAIN persisted : persisted[i] = persisted[j] => i = j
        /\ skipped \cap failed = {}
        /\ \A i \in DOMAIN persisted : persisted[i] \notin skipped \cup failed

\* The add_reading calls and the flushes have met no failure.
NoFailure == faults = 0 /\ skipped = {} /\ failed = {}

ActiveSlot == IF active_buffer = "a" THEN buffer_a ELSE buffer_b

\* C9 (as stated): without failures, adds \div max_size asynchronous flushes
\* have been started, each carrying max_size readings, adds % max_size readings
\* remain in the active slot, and after the final flush_all total_saved equals
\* the number of add_reading calls.
C9_ThresholdFlushing ==
    /\ (NoFailure /\ flush_all_pc = "idle") =>
          /\ Len(flushers) = adds \div max_size
          /\ \A i \in DOMAIN flushers :
                ~flushers[i].inline /\ Len(flushers[i].readings) = max_size
          /\ Len(ActiveSlot) = adds % max_size
    /\ (NoFailure /\ Quiescent) => total_saved = adds

\* C1: at most one read_temperature call is inside its critical section at any
\* instant, whatever the interleaving of tasks and worker threads; the worker
\* inside holds the lock, and a worker has a request on the wire (primary or
\* ambient) only while inside.
C1_SequentialBusAccess ==
    /\ Cardinality({ w \in DOMAIN workers : InCriticalSection(w) }) <= 1
    /\ \A w \in DOMAIN workers : InCriticalSection(w) => svc_lock = w
    /\ \A w \in DOMAIN workers : w \in wire => InCriticalSection(w)

\* A read left over from a cancelled task has its request on the wire while
\* the read of a newer task waits for the lock.
C1_Witness ==
    \E w1, w2 \in DOMAIN workers :
        /\ w1 \in wire
        /\ workers[w2].pc = "start"
        /\ workers[w1].task # workers[w2].task
        /\ tasks[workers[w1].task].pc = "ended"

\* C2 (as stated): at most one request is on the wire at any instant, also
\* when a parameter operation starts while a read dispatched before stop() is
\* still executing.
C2_SerialPortExclusivity == Cardinality(wire) <= 1

\* C7: a parameter operation invoked while the scheduler is running leaves
\* is_running true when it returns or raises.
C7_PauseResumeSafety ==
    (param.pc = "return" /\ param.polling_was_running) => is_running

\* A parameter operation was invoked with the scheduler running and has ended
\* (by raising), the scheduler's task still being alive.
C7_Witness ==
    /\ param.pc = "return" /\ param.polling_was_running /\ param.error # "none"
    /\ is_running
    /\ polling_task # 0 /\ tasks[polling_task].pc = "await_read"

FailedCauses == { "connect_failed", "error_response", "exception" }

\* C8: in a cycle that is not cancelled every enabled device yields exactly
\* one reading, in device order; a failed read (connect failure, timeout,
\* Modbus error) yields status Err with a null primary value, and the devices
\* after it are still read.
C8_FailureIsolation ==
    \A t \in DOMAIN tasks :
        LET got == tasks[t].got IN
        /\ \A i \in DOMAIN got : got[i].device = i
        /\ \A i \in DOMAIN got :
              got[i].cause \in FailedCauses =>
                  got[i].status = "Err" /\ ~got[i].has_value
        /\ tasks[t].pc = "await_read" /\ ~tasks[t].cancel =>
              Len(got) = tasks[t].dev - 1
        /\ tasks[t].pc = "sleep_dev" => Len(got) = tasks[t].dev
        /\ tasks[t].pc = "sleep_cycle" /\ ~tasks[t].broke =>
              Len(got) = tasks[t].n

\* A cycle over all devices has completed although the read of the first
\* device failed; the last device was read successfully.
C8_Witness ==
    \E t \in DOMAIN tasks :
        /\ tasks[t].pc = "sleep_cycle"
        /\ tasks[t].n = NumDevices
        /\ Len(tasks[t].got) = NumDevices
        /\ tasks[t].got[1].cause \in FailedCauses
        /\ tasks[t].got[NumDevices].status = "OK"

\* The loop task can still execute a statement of its loop: it has not ended
\* and no cancellation is pending on it.
Alive(t) == tasks[t].pc # "ended" /\ ~tasks[t].cancel

\* C11: start() while running creates no second cycle loop: under any
\* interleaving of start(), stop() and restart() at most one loop task is
\* alive, and once no stop() is under way at most one task has not ended.
C11_StartIdempotent ==
    /\ Cardinality({ t \in DOMAIN tasks : Alive(t) }) <= 1
    /\ stopping = {} =>
          Cardinality({ t \in DOMAIN tasks : tasks[t].pc # "ended" }) <= 1
    /\ is_running => polling_task # 0 /\ ~tasks[polling_task].cancel

\* The scheduler is running its second loop task after a restart(), the first
\* task has ended, and start() is called again (here it would do nothing).
C11_Witness ==
    /\ is_running
    /\ Len(tasks) = 2
    /\ tasks[1].pc = "ended"
    /\ tasks[2].pc = "await_read"
    /\ stopping = {} /\ restarting.pc = "idle"
    /\ ENABLED start

\* A call of stop() is at its return statement.
Returning(s) == s \in stopping /\ s.pc = "return"

\* C12 (as stated): stop() cancels the loop, then flushes both slots, then
\* disconnects; when it returns the awaited task has ended, both slots are
\* empty, the transport holds no open connection and is_running is false.
C12_StopPostcondition ==
    \A s \in stopping :
        Returning(s) =>
            /\ tasks[s.task].pc = "ended"
            /\ buffered = 0
            /\ client = "none"
            /\ ~is_running

\* C13 (as stated): when stop() returns no reading is in flight: every read
\* the awaited task handed to a worker thread has returned.
C13_NoReadingInFlight ==
    \A s \in stopping :
        Returning(s) =>
            \A w \in DOMAIN workers :
                workers[w].task = s.task => workers[w].pc = "done"

\* A write under way or about to return, and its value against the bounds.
Writing == param.pc # "idle" /\ param.kind = "write"
OutOfBounds ==
    param.value < MIN_TIME_INTERVAL \/ param.value > MAX_TIME_INTERVAL

C14_WitnessAccepted ==
    /\ Writing /\ param.pc = "return" /\ param.value = MAX_TIME_INTERVAL
    /\ param.on_wire /\ param.error = "none"

\* C15: a parameter operation entered while the scheduler is not running
\* never starts it: when the call is about to return or to raise, is_running
\* is what it was at entry, false.
C15_NoSpuriousStart ==
    (param.pc = "return" /\ ~param.polling_was_running) => ~is_running

\* A read entered with polling stopped went out on the bus, failed with a
\* Modbus error and is about to raise, polling still being stopped after an
\* earlier start() and stop().
C15_Witness ==
    /\ param.pc = "return" /\ param.kind = "read" /\ ~param.polling_was_running
    /\ param.on_wire /\ param.error = "modbus"
    /\ ~is_running /\ Len(tasks) >= 1

\* A parameter operation that took the pause path (polling was running when
\* it was entered) is ending, by return or by error.
PausedOperationEnds == param.pc = "return" /\ param.polling_was_running

\* The cycle loop executes the top of a poll cycle: `while self.is_running`
\* is passed and the devices are fetched.
PollCycle == is_running /\ \E t \in DOMAIN tasks : TaskRun(t)

C17_PersistedAtMostOnce ==
    /\ \A i, j \in DOMAIN persisted : persisted[i] = persisted[j] => i = j
    /\ \A i, j \in DOMAIN flushers :
          i # j => SeqSet(flushers[i].readings) \cap SeqSet(flushers[j].readings) = {}

\* flush_all is saving a slot while a flush thread started by add_reading has
\* not finished, a batch insert having failed and fallen back to individual
\* inserts of which one was dropped and one went in.
C17_Witness ==
    /\ flush_all_pc \in {"save_a", "save_b"}
    /\ \E i \in DOMAIN flushers : ~flushers[i].inline /\ flushers[i].pc # "done"
    /\ faults = 1 /\ failed # {} /\ Len(persisted) >= 1
    /\ \E i \in DOMAIN flushers :
          /\ flushers[i].pc \notin {"begin", "insert", "retry"}
          /\ SeqSet(flushers[i].readings) \cap failed # {}
          /\ \E k \in DOMAIN persisted : persisted[k] \in SeqSet(flushers[i].readings)

\* The slots hold their readings in the order of the add_reading calls.
Ascending(q) == \A i, j \in DOMAIN q : i < j => q[i] < q[j]

\* C18 (as stated): for any one device, its readings are appended to the
\* slots and inserted into device_readings in the order in which they were
\* decoded, under any interleaving of flush threads and flush_all.
C18_PerDeviceOrdering ==
    /\ Ascending(SeqOf(buffer_a)) /\ Ascending(SeqOf(buffer_b))
    /\ \A i, j \in DOMAIN persisted :
          (i < j /\ Reading(persisted[i]).device_id = Reading(persisted[j]).device_id)
             => persisted[i] < persisted[j]

\* C19 (as stated): the time-check loop calls daily_cleanup() at the first
\* wake-up of a calendar date at which the hour equals cleanup_hour, and
\* never a second time for the same date, whatever the wall clock does
\* between wake-ups.
C19_OncePerDay ==
    /\ woke.hour = cleanup_hour => fired[woke.date] >= 1
    /\ \A d \in Dates : fired[d] <= 1

\* C20 (as stated, with leave for a subscriber that has gone meanwhile): when
\* broadcast returns, a send has been attempted to every subscriber that was
\* subscribed when the publish started and still is, also when subscribers
\* connected or disconnected while a send was awaited.
C20_BroadcastReachesAll ==
    publish.pc = "returned" =>
        \A c \in publish.at_start :
            c \in Connections(active_connections) =>
                c \in Connections(publish.attempted)

\* The subscribers whose send failed, and those whose send succeeded, in the
\* publish under way.
SendFailed == Connections(publish.dead_connections)
SendSucceeded == Connections(publish.attempted) \ SendFailed

\* C21 (as stated): after broadcast() returns every subscriber whose send
\* failed during that publish is out of the subscriber set and every
\* subscriber whose send succeeded is still in it; and the subscriber set is
\* never modified while the publish pass is iterating over it.
C21_DeadRemovedAfterPass ==
    /\ publish.pc = "returned" =>
          /\ SendFailed \cap Connections(active_connections) = {}
          /\ SendSucceeded \subseteq Connections(active_connections)
    /\ publish.pc = "loop" =>
          Connections(active_connections) = publish.at_start

\* The part of C21 that is broadcast's own doing: a failed subscriber is out
\* of the set when broadcast returns.
C21_FailedAreGone ==
    publish.pc = "returned" =>
        SendFailed \cap Connections(active_connections) = {}

\* A sequence holds no item twice.
NoRepeat(list) ==
    \A i, j \in DOMAIN list : list[i] = list[j] => i = j

\* C22: a failing subscriber never disturbs acquisition: broadcast ends by an
\* exception only when the scheduler task is cancelled, never because a
\* subscriber's send failed; no subscriber is sent the message twice, so a
\* failed send is not retried; and the reading being published is one the
\* scheduler has already passed to add_reading.
C22_FailingSubscriberHarmless ==
    /\ publish.pc = "raised" => publish.error = "CancelledError"
    /\ NoRepeat(publish.attempted)
    /\ publish.pc # "idle" => publish.message \in 1..added

\* broadcast has returned from a publish in which a send failed.
C22_Witness ==
    /\ publish.pc = "returned"
    /\ SendFailed # {}

\* The value the primary registers of the call decode to.
PrimaryDecoded == Decode(read_call.register_count, read_call.response.registers)

\* The primary read of the call got as far as decoding registers.
PrimaryWasDecoded ==
    /\ read_call.response.kind = "registers"
    /\ read_call.function_code \in { 3, 4 }
    /\ read_call.register_count \in { 1, 2 }

\* C23 (as stated): the row written to durable storage carries the primary
\* value of the Reading passed to add_reading, and a null primary value is
\* persisted as null.
C23_RowCarriesReading ==
    db_reading.saved => db_reading.value = reading_data.temperature

\* C28: a primary value that decodes outside [-50, 1500] is kept in the
\* Reading, as decoded, together with the hex of its registers, and the
\* status is Err; a value inside the range, bounds included, gives status OK;
\* the reading is passed to add_reading in both cases.
C28_SanityBound ==
    (reading_data.added /\ PrimaryWasDecoded) =>
        /\ reading_data.raw_hex = RawHex(read_call.response.registers)
        /\ IF AtLeast(PrimaryDecoded, -50) /\ AtMost(PrimaryDecoded, 1500)
           THEN reading_data.status = "OK"
           ELSE /\ reading_data.status = "Err"
                /\ reading_data.temperature = PrimaryDecoded

\* A reading whose primary value is above the range has been passed to
\* add_reading.
C28_Witness ==
    /\ reading_data.added
    /\ PrimaryWasDecoded
    /\ ~AtMost(PrimaryDecoded, 1500)
    /\ reading_data.status = "Err"

\* The value the ambient registers of the call decode to.
AmbientDecoded ==
    Decode(read_call.register_count, read_call.ambient_response.registers)

\* C29 (as stated): an ambient value decoded outside [-50, 1500] is kept in
\* the Reading, and a failed ambient read leaves the primary value and the
\* status as the primary read set them.
C29_AmbientLikePrimary ==
    (reading_data.added /\ PrimaryWasDecoded) =>
        /\ ( /\ read_call.ambient_response.kind = "registers"
             /\ ~(AtLeast(AmbientDecoded, -50) /\ AtMost(AmbientDecoded, 1500)) )
              => reading_data.ambient_temp = AmbientDecoded
        /\ read_call.ambient_response.kind # "registers" =>
              /\ reading_data.status =
                    (IF Sane(PrimaryDecoded) THEN "OK" ELSE "Err")
              /\ reading_data.temperature =
                    (IF Sane(PrimaryDecoded) THEN Round2(PrimaryDecoded)
                     ELSE PrimaryDecoded)

\* The part of C29 that holds: a failed ambient read (error response or
\* exception) leaves the primary value and the status as the primary read
\* set them, and the ambient value None.
C29_FailedAmbientHarmless ==
    ( /\ reading_data.added /\ PrimaryWasDecoded
      /\ read_call.ambient_response.kind # "registers" ) =>
        /\ reading_data.ambient_temp = None
        /\ reading_data.status =
              (IF Sane(PrimaryDecoded) THEN "OK" ELSE "Err")
        /\ reading_data.temperature =
              (IF Sane(PrimaryDecoded) THEN Round2(PrimaryDecoded)
               ELSE PrimaryDecoded)

\* The part of C23 that holds: a primary value that is not null is persisted
\* as it is.
C23_ValueCarried ==
    (db_reading.saved /\ reading_data.temperature # None) =>
        db_reading.value = reading_data.temperature

\* C24 (as stated, read at the moments no flush is under way): once every
\* flush has finished, total_saved, which get_stats() reports, equals the
\* number of rows the flushes have committed, under any interleaving of the
\* background flush threads and flush_all.
C24_TotalCountsCommitted ==
    Quiescent => total_saved = Len(persisted)

InactiveSlot == IF active_buffer = "a" THEN buffer_b ELSE buffer_a

\* The inactive slot is the one flush_all is saving.
InactiveBeingFlushed ==
    \/ active_buffer = "b" /\ flush_all_pc = "save_a"
    \/ active_buffer = "a" /\ flush_all_pc = "save_b"

\* C25: in every reachable state exactly one of the two slots is the active
\* one, the inactive slot is empty or its contents are being flushed, and the
\* active slot is below the threshold; the active marker flips in exactly
\* those steps in which a reading is added and brings the active slot's length
\* to the threshold.
C25_SlotInvariant ==
    /\ [](/\ active_buffer \in { "a", "b" }
          /\ InactiveSlot = <<>> \/ InactiveBeingFlushed
          /\ Len(ActiveSlot) < max_size)
    /\ [][ active_buffer' # active_buffer <=>
             (adds' = adds + 1 /\ Len(ActiveSlot) + 1 = max_size) ]_vars

\* The marker has flipped to B and come back to A, B holding nothing.
C25_Witness ==
    /\ active_buffer = "a"
    /\ Len(flushers) >= 2
    /\ buffer_b = <<>>
    /\ buffer_a # <<>>

\* A call of _save_buffer_to_db is executing.
Saving(i) == flushers[i].pc # "done"

\* C26 (as stated): while any durable write of a slot's contents is
\* executing, in a background flush thread or inside flush_all, the buffer
\* lock is free, so that an add_reading call can take it and append.
C26_FlushNeverBlocksAdd ==
    (\E i \in DOMAIN flushers : Saving(i)) => lock = "free"

\* The part of C26 that holds: while background flush threads are writing
\* and flush_all is not under way, the buffer lock is free.
C26_BackgroundFlushFree ==
    ( /\ \E i \in DOMAIN flushers : Saving(i)
      /\ flush_all_pc \in { "idle", "returned" } ) => lock = "free"

\* An exception was raised in this step.
FaultRaised == sched'.faults = sched.faults + 1

\* C27: no fault terminates the scheduler task.  The task is never ended by
\* an exception other than its cancellation, and when it has ended it was
\* cancelled or is_running is false; an exception of a read, of add_reading or of broadcast takes the
\* task to the 0.5 s sleep before the next device, and one of the device
\* registry or of the end of the cycle to the 5 s backoff, from which the task
\* goes to the top of the loop or ends by cancellation.
C27_NoFaultEndsScheduler ==
    /\ [](/\ sched.pc # "crashed"
          /\ sched.pc = "ended" =>
                (sched.reason = "cancelled" \/ ~sched.is_running))
    /\ [][ /\ (FaultRaised /\ sched'.fault \in { "read", "add", "broadcast" })
                => sched'.pc = "sleep_dev"
           /\ (FaultRaised /\ sched'.fault \in { "registry", "interval" })
                => sched'.pc = "backoff"
           /\ (sched.pc = "backoff" /\ sched'.pc # "backoff")
                => sched'.pc \in { "top", "ended" } ]_vars

\* After MaxLoopFaults exceptions, the last of them raised by the device
\* registry or at the end of a cycle, the task is reading a device in a later
\* cycle.
C27_Witness ==
    /\ sched.faults = MaxLoopFaults
    /\ sched.fault \in { "registry", "interval" }
    /\ sched.pc = "await_read"
    /\ sched.cycle_count = MaxCycles

\* connect has reused the client it found.
Reused ==
    /\ connecting.result
    /\ connecting.before # NoClient
    /\ modbus.client = connecting.before

\* What C30 says of a call of connect(port, baudrate) that returns True.
ReuseRule ==
    /\ modbus.current_port = connecting.port
    /\ modbus.current_baudrate = connecting.baudrate
    /\ Reused => /\ connecting.before.port = connecting.port
                 /\ connecting.before.baudrate = connecting.baudrate
    /\ ( /\ connecting.before # NoClient
         /\ \/ connecting.before.port # connecting.port
            \/ connecting.before.baudrate # connecting.baudrate )
          => /\ connecting.before.id \in modbus.closed
             /\ modbus.client.id # connecting.before.id
             /\ modbus.client.port = connecting.port
             /\ modbus.client.baudrate = connecting.baudrate
             /\ modbus.client.connected

\* C30 (as stated): connect(port, baud) reuses the open connection only when
\* port and baud both equal those of the open connection and otherwise closes
\* it and opens a new one; after any successful connect the recorded port and
\* baud rate equal the arguments.
C30_ConnectionReuse ==
    (connecting.pc = "return" /\ connecting.result) => ReuseRule

\* The part of C30 that holds: the same, for the calls of connect during
\* which stop() did not disconnect.
C30_ReuseUndisturbed ==
    (connecting.pc = "return" /\ connecting.result /\ ~connecting.raced)
        => ReuseRule

\* ---------------------------------------------------------------------------
\* C31: during a flush a reading whose device id is not in device_settings is
\* skipped: it is never inserted, no later flush holds it again (it is in no
\* slot once flush_all has released the lock, and in no batch of a flush that
\* has yet to look at its readings), and the other readings of its batch go
\* on to the insert, where each is committed unless the storage rejects it on
\* its own.
Inserting(i) == flushers[i].pc \notin {"begin", "insert", "retry"}
                  /\ flushers[i].db_readings # <<>>

\* The readings that were inserted into device_readings.
Inserted == { persisted[k] : k \in DOMAIN persisted }

SkipsUnknown ==
    \A i \in 1..Len(flushers) :
       (flushers[i].pc = "begin" /\ flushers'[i].pc # "begin"
          /\ faults' = faults) =>
          /\ \A j \in 1..Len(flushers[i].readings) :
                LET r == flushers[i].readings[j] IN
                IF r.device_id \in device_settings
                THEN r.seq \in SeqSet(flushers'[i].db_readings)
                       /\ r.seq \notin skipped'
                ELSE r.seq \notin SeqSet(flushers'[i].db_readings)
                       /\ r.seq \in skipped'

C31_UnknownDeviceSkipped ==
    /\ [](/\ skipped \cap Inserted = {}
          /\ lock = "free" =>
                skipped \cap (SeqSet(buffer_a) \cup SeqSet(buffer_b)) = {}
          /\ \A i \in 1..Len(flushers) :
                /\ flushers[i].pc = "begin" =>
                      skipped \cap SeqSet(flushers[i].readings) = {}
                /\ Inserting(i) =>
                      SeqSet(flushers[i].db_readings)
                         \subseteq (Inserted \cup failed)
          /\ (faults = 0 => failed = {}))
    /\ [][SkipsUnknown]_vars

\* A batch of which one reading was skipped and another inserted.
C31_Witness ==
    \E i \in 1..Len(flushers) :
       /\ Inserting(i)
       /\ SeqSet(flushers[i].readings) \cap skipped # {}
       /\ SeqSet(flushers[i].db_readings) # {}
       /\ SeqSet(flushers[i].db_readings) \subseteq Inserted

\* ---------------------------------------------------------------------------
\* C32: when the batched insert of a flush fails, the flush goes through its
\* entries one by one: an entry whose own insert succeeds is committed and
\* counted, an entry whose own insert fails is dropped and never tried again,
\* and the flush runs to its end.
Retried(i) == flushers[i].next > 0

\* The entries of flush i tried on their own so far.
Tried(i) ==
    { flushers[i].db_readings[k].seq :
         k \in 1..Min(flushers[i].next - 1, Len(flushers[i].db_readings)) }

OneTryEach ==
    \A i \in DOMAIN flushers :
       (flushers[i].pc = "retry" /\ flushers'[i] # flushers[i]) =>
          LET entry == flushers[i].db_readings[flushers[i].next].seq IN
          /\ flushers'[i].next = flushers[i].next + 1
          /\ \/ entry \in failed' /\ persisted' = persisted
                   /\ flushers'[i].saved_count = flushers[i].saved_count
             \/ entry \notin failed' /\ persisted' = Append(persisted, entry)
                   /\ flushers'[i].saved_count = flushers[i].saved_count + 1

C32_EntryByEntryRetry ==
    /\ [](/\ failed \cap Inserted = {}
          /\ \A i \in DOMAIN flushers :
                Retried(i) =>
                   /\ Tried(i) \subseteq Inserted \cup failed
                   /\ (SeqSet(flushers[i].db_readings) \ Tried(i))
                         \cap (Inserted \cup failed) = {}
                   /\ flushers[i].saved_count
                         = Cardinality(Tried(i) \cap Inserted)
                   /\ flushers[i].pc # "retry" =>
                         Tried(i) = SeqSet(flushers[i].db_readings))
    /\ [][OneTryEach]_vars
    /\ \A i \in 1..FlushThreads :
          (flushers[i].pc = "retry") ~> (flushers[i].pc = "done")

\* A flush that fell back to individual inserts has finished: one of its
\* entries went in, the other was dropped.
C32_Witness ==
    \E i \in DOMAIN flushers :
       /\ Retried(i) /\ flushers[i].pc = "done"
       /\ Tried(i) \cap Inserted # {}
       /\ Tried(i) \cap failed # {}

\* ---------------------------------------------------------------------------
\* C39: whenever the buffer lock is free the inactive slot is empty and the
\* active slot holds fewer than max_size readings, so that between operations
\* the two slots together hold at most max_size - 1 readings.
C39_BoundedBufferMemory ==
    lock = "free" =>
       /\ InactiveSlot = <<>>
       /\ Len(ActiveSlot) < max_size
       /\ Len(buffer_a) + Len(buffer_b) <= max_size - 1

\* Slot B is one reading short of the threshold after slot A was handed to a
\* flush thread, and the lock is free.
C39_Witness ==
    /\ lock = "free"
    /\ active_buffer = "b"
    /\ Len(buffer_b) = max_size - 1
    /\ buffer_a = <<>>
    /\ flushers # <<>>

\* ---------------------------------------------------------------------------
\* C35 (as stated): cleanup_on_buffer_flush() never brings the row count below
\* max_rows, also when two flushes run it concurrently: no deletion of a
\* cleanup leaves fewer than max_rows rows in a table no device was deleted
\* from.
CleanupDeletes(i) ==
    flushers[i].pc = "cleanup_delete" /\ flushers'[i].pc = "done"

C35_CleanupKeepsMaxRows ==
    [][ \A i \in DOMAIN flushers :
          (CleanupDeletes(i) /\ device_settings = DeviceIds)
             => Cardinality(rows') >= max_rows ]_vars

\* ---------------------------------------------------------------------------
\* C33: a failure inside daily_cleanup() aborts only that run: the table is
\* left as it was or with the whole deletion committed, never with a part of
\* it; the time-check loop goes on; and a wake-up at the cleanup hour of a
\* later date finds the cleanup of that date fired.
NoPartialDeletion ==
    /\ rows' # rows =>
          /\ rows' = rows \ OldRows(rows, CutoffDate(wall_now.date))
          /\ woke'.outcome \in {"ok", "failed_after_commit"}
    /\ (woke' # woke /\ woke'.outcome \in {"failed_before_commit", "raised"})
          => rows' = rows

NextDayFires ==
    (CleanupFailed(woke) /\ woke'.date > woke.date /\ woke'.hour = cleanup_hour)
       => fired'[woke'.date] >= 1

C33_CleanupFailureIsolated ==
    /\ [](CleanupFailed(woke) => woke.looping)
    /\ [][NoPartialDeletion /\ NextDayFires]_vars

\* The cleanup of date 2 failed; the cleanup of date 3 then ran and deleted
\* the rows.
C33_Witness ==
    /\ fired[1] = 0 /\ fired[2] = 1 /\ fired[3] = 1
    /\ woke.date = 3 /\ woke.ran /\ woke.outcome = "ok" /\ woke.looping
    /\ woke.failed_before
    /\ rows = {}

\* ---------------------------------------------------------------------------
\* C34 (as stated): a persisted reading of a deleted device stays in the store
\* until the retention deletes it by its timestamp: a row whose device is not
\* in device_settings leaves device_readings only in a deletion step of
\* cleanup_on_buffer_flush, as one of the oldest rows over the ceiling.
C34_DeletedDeviceRowsStay ==
    [][ \A r \in rows \ rows' :
           r.device_id \notin device_settings' =>
              /\ \E i \in DOMAIN flushers : CleanupDeletes(i)
              /\ \A q \in rows' : r.ts_utc <= q.ts_utc ]_vars

\* ---------------------------------------------------------------------------
\* C38: every result read_temperature returns has status "OK" or "Err"; with
\* status "OK" the primary value is not None and lies within [-50, 1500];
\* with a primary value of None the status is "Err"; and when the register
\* read failed (no connection, an error response, an exception) the raw hex
\* string is empty.
RegisterReadFailed ==
    read_call.response.kind \in {"connect_failed", "error", "exception"}

\* -50 <= value <= 1500 for a value rounded to hundredths.
WithinSanityRange(value) ==
    /\ value.kind = "hundredths"
    /\ IF value.neg THEN value.M <= 50 * 100 ELSE value.M <= 1500 * 100

C38_ReadingWellFormed ==
    read_result.returned =>
       /\ read_result.status \in {"OK", "Err"}
       /\ read_result.status = "OK" =>
             /\ read_result.temperature # None
             /\ WithinSanityRange(read_result.temperature)
       /\ read_result.temperature = None => read_result.status = "Err"
       /\ RegisterReadFailed => read_result.raw_hex = <<>>

\* An error response: the result has no primary value, status "Err" and an
\* empty raw hex string.
C38_Witness ==
    /\ read_result.returned
    /\ read_call.function_code \in {3, 4}
    /\ read_call.response.kind = "error"
    /\ read_result.temperature = None
    /\ read_result.status = "Err"
    /\ read_result.raw_hex = <<>>

\* ---------------------------------------------------------------------------
\* C37 (as stated): while a parameter operation is between its pause and its
\* resume (it found polling running, has made its pause and has not yet made
\* its resume) the Scheduler is not running, and no second parameter
\* operation is using the bus when the resume is made.
BetweenPauseAndResume ==
    param.polling_was_running /\ param.pc \notin {"idle", "return"}

C37_PausedWhileParameterOp ==
    BetweenPauseAndResume => ~is_running

\* ---------------------------------------------------------------------------
\* C40 (as stated): write_slope accepts a value exactly when it lies in the
\* slope range [MIN_SLOPE, MAX_SLOPE] (800..1200 in thousandths) and rejects
\* every other value before any bus write.
WritingSlope == param.pc # "idle" /\ param.kind = "write_slope"
InSlopeRange == MIN_SLOPE_INT <= param.value /\ param.value <= MAX_SLOPE_INT

C40_SlopeRange ==
    /\ (WritingSlope /\ ~param.polling_was_running) =>
          (param.error # "validation" <=> InSlopeRange)
    /\ (WritingSlope /\ param.on_wire) => InSlopeRange

\* ---------------------------------------------------------------------------
\* C36 (as stated): modbus_service.disconnect(), as stop() calls it, never
\* executes while a read_temperature call on a worker thread is inside
\* `with self._lock`, using the client.
StopDisconnects == \E s \in stopping' \ stopping : s.pc = "return"

C36_NoDisconnectUnderRead ==
    [][ StopDisconnects => ~\E w \in DOMAIN workers : InCriticalSection(w) ]_vars

====
